---- MODULE Spec2Model ----
(***************************************************************************)
(* Model of the neko.ai backend core: the versioned slide store (db/crud,   *)
(* SessionManager, SlideService) and the provider-failover router           *)
(* (AIRouter with the Groq and Gemini provider clients).                    *)
(*                                                                          *)
(* The store is modelled at the level of the two SQLite tables the code     *)
(* writes (slides, slide_versions) plus the chat table and the in-memory    *)
(* SessionManager cache.  Row ids follow SQLite's rule for an INTEGER       *)
(* PRIMARY KEY declared without AUTOINCREMENT: a new row gets max(id)+1.    *)
(* Foreign keys are not enforced (database.py never issues PRAGMA           *)
(* foreign_keys=ON), so ON DELETE CASCADE is inert for bulk deletes.        *)
(***************************************************************************)
EXTENDS Integers, Sequences, FiniteSets, TLC

VARIABLES
    slidesTbl,     \* table "slides": set of rows of SlideModel
    versionsTbl,   \* table "slide_versions": set of rows of SlideVersionModel
    chatTbl,       \* table "chat_messages" of the session, in insertion order
    sessions,      \* SessionManager.sessions[session_id]: cached SessionData
    last,          \* history: the last store operation, its inputs, result, pre-state
    status,        \* provider._status, per provider client
    last_error,    \* provider._last_error, per provider client
    providers,     \* AIRouter.providers, in priority order
    cooldowns,     \* AIRouter._cooldowns: provider -> expiry time (NoCooldown if absent)
    now,           \* wall clock (datetime.now()), in ticks
    calls,         \* the router calls in flight (one coroutine frame per call)
    jobs,          \* JobManager.jobs, in insertion order
    queue,         \* JobManager._queue: job ids waiting for the consumer
    consumer,      \* the process_jobs coroutine and the task it runs
    handlers,      \* the store requests in flight (one coroutine frame each)
    cached         \* session_id in SessionManager.sessions

storeVars == <<slidesTbl, versionsTbl, chatTbl, sessions, last, handlers, cached>>
routerVars == <<status, last_error, providers, cooldowns, now, calls>>
jobVars == <<jobs, queue, consumer>>
vars == <<slidesTbl, versionsTbl, chatTbl, sessions, last,
          status, last_error, providers, cooldowns, now, calls,
          jobs, queue, consumer, handlers, cached>>

(***************************************************************************)
(* Bounds                                                                   *)
(***************************************************************************)
MaxSlides == 2        \* slides per generated outline
MaxVersionRows == 4   \* rows ever inserted into slide_versions
MaxChat == 7          \* rows ever inserted into chat_messages
MaxSessions == 2      \* sessions created one after the other

NoneVal == "<None>"
NoSlide == 0          \* related_slide = None

(***************************************************************************)
(* Slide content.  A body is the (title, content, speaker_notes) triple     *)
(* that SlideModel, SlideVersionModel and schemas.SlideVersion all carry.   *)
(***************************************************************************)
MkBody(t, c, n) == [title |-> t, content |-> c, speaker_notes |-> n]

\* The parsed JSON object of a regeneration answer: a function from the keys
\* that are present to their values (a key may be absent).
RegenData == { [title |-> "T3", content |-> <<"y">>, speaker_notes |-> "n3"],
               [title |-> "T3"],
               [content |-> <<"y">>, speaker_notes |-> "n3"] }
\* no object (operations other than a successful regeneration)
NoData == <<>>

INITIAL_INSTRUCTION == "Initial generation"
Instructions == {"make it shorter"}

\* dict.get(key, default)
DictGet(data, key, default) == IF key \in DOMAIN data THEN data[key] ELSE default

(***************************************************************************)
(* Python list indexing: a negative index counts from the end               *)
(***************************************************************************)
PyInRange(seq, i) == -Len(seq) <= i /\ i < Len(seq)
PyIndex(seq, i) == IF i < 0 THEN seq[Len(seq) + i + 1] ELSE seq[i + 1]

\* the sequences over S of length at most n
RECURSIVE SeqsUpTo(_, _)
SeqsUpTo(S, n) ==
    IF n = 0 THEN {<<>>}
    ELSE LET shorter == SeqsUpTo(S, n - 1)
         IN  shorter \cup {Append(s, x) : s \in {t \in shorter : Len(t) = n - 1}, x \in S}

(***************************************************************************)
(* Tables                                                                   *)
(***************************************************************************)
\* SQLite rowid allocation for INTEGER PRIMARY KEY without AUTOINCREMENT:
\* the largest rowid in the table plus one
NextRowId(tbl) ==
    IF tbl = {} THEN 1
    ELSE (CHOOSE m \in {r.id : r \in tbl} : \A r \in tbl : r.id <= m) + 1

\* rows of a table as a sequence in rowid order (scan order of SQLite)
RECURSIVE ById(_)
ById(rows) ==
    IF rows = {} THEN <<>>
    ELSE LET r == CHOOSE x \in rows : \A y \in rows : x.id <= y.id
         IN  <<r>> \o ById(rows \ {r})

\* relationship SlideModel.versions: order_by version_number; rows with equal
\* version_number come out in rowid order
RECURSIVE ByVersionNumber(_)
ByVersionNumber(rows) ==
    IF rows = {} THEN <<>>
    ELSE LET r == CHOOSE x \in rows : \A y \in rows :
                     \/ x.version_number < y.version_number
                     \/ x.version_number = y.version_number /\ x.id <= y.id
         IN  <<r>> \o ByVersionNumber(rows \ {r})

SlideVersionsOf(vt, slideId) == ByVersionNumber({v \in vt : v.slide_id = slideId})

\* crud.get_slide: the slide row with this number (None if there is none)
SlidesNumbered(st, n) == {s \in st : s.slide_number = n}

(***************************************************************************)
(* SessionManager._db_session_to_schema                                     *)
(***************************************************************************)
db_session_to_schema(st, vt, ct) ==
    LET rows == ById(st)
        versions(s) ==
            LET vrows == SlideVersionsOf(vt, s.id)
            IN  [i \in 1..Len(vrows) |->
                    [version |-> i - 1, body |-> vrows[i].body,
                     instruction |-> vrows[i].instruction]]
    IN  [slides |-> [i \in 1..Len(rows) |->
                       [slide_number |-> rows[i].slide_number,
                        versions |-> versions(rows[i]),
                        current_version |-> rows[i].current_version]],
         chat_history |-> ct]

(***************************************************************************)
(* crud                                                                     *)
(***************************************************************************)
\* crud.create_slide: one slide row and its version 0
create_slide_row(st, n, body) ==
    [id |-> NextRowId(st), slide_number |-> n, body |-> body, current_version |-> 0]

create_slide_version(vt, slideId, body, instruction) ==
    [id |-> NextRowId(vt), slide_id |-> slideId, version_number |-> 0,
     body |-> body, instruction |-> instruction]

\* crud.delete_slides_for_session: bulk DELETE on table slides only
delete_slides_for_session(st) == {}

\* tables after creating the slides of an outline one after the other
RECURSIVE CreateSlides(_, _, _, _)
CreateSlides(st, vt, bodies, k) ==
    IF k > Len(bodies) THEN [st |-> st, vt |-> vt]
    ELSE LET s == create_slide_row(st, k, bodies[k])
             v == create_slide_version(vt, s.id, bodies[k], INITIAL_INSTRUCTION)
         IN  CreateSlides(st \cup {s}, vt \cup {v}, bodies, k + 1)

\* variant: the pointer is set one past the appended version
update_slide_content_past_tail(st, vt, slide, body, instruction) ==
    LET new_version_num == Len(SlideVersionsOf(vt, slide.id))
        version == [id |-> NextRowId(vt), slide_id |-> slide.id,
                    version_number |-> new_version_num,
                    body |-> body, instruction |-> instruction]
        updated == [slide EXCEPT !.body = body, !.current_version = new_version_num + 1]
    IN  [st |-> (st \ {slide}) \cup {updated}, vt |-> vt \cup {version}]

\* variant: the version is appended but the pointer is not advanced
update_slide_content_no_advance(st, vt, slide, body, instruction) ==
    LET new_version_num == Len(SlideVersionsOf(vt, slide.id))
        version == [id |-> NextRowId(vt), slide_id |-> slide.id,
                    version_number |-> new_version_num,
                    body |-> body, instruction |-> instruction]
        updated == [slide EXCEPT !.body = body]
    IN  [st |-> (st \ {slide}) \cup {updated}, vt |-> vt \cup {version}]

\* variant: the new version is numbered after the current (rolled-back-to)
\* version instead of after the whole history
update_slide_content_after_current(st, vt, slide, body, instruction) ==
    LET new_version_num == slide.current_version + 1
        version == [id |-> NextRowId(vt), slide_id |-> slide.id,
                    version_number |-> new_version_num,
                    body |-> body, instruction |-> instruction]
        updated == [slide EXCEPT !.body = body, !.current_version = new_version_num]
    IN  [st |-> (st \ {slide}) \cup {updated}, vt |-> vt \cup {version}]

\* crud.update_slide_content
update_slide_content(st, vt, slide, body, instruction) ==
    LET new_version_num == Len(SlideVersionsOf(vt, slide.id))
        version == [id |-> NextRowId(vt), slide_id |-> slide.id,
                    version_number |-> new_version_num,
                    body |-> body, instruction |-> instruction]
        updated == [slide EXCEPT !.body = body, !.current_version = new_version_num]
    IN  [st |-> (st \ {slide}) \cup {updated}, vt |-> vt \cup {version}]

\* variant: the lower bound of the index is not checked
rollback_accepts_no_lower_bound(vt, slide, version_index) ==
    ~(version_index >= Len(SlideVersionsOf(vt, slide.id)))

\* crud.rollback_slide_version: TRUE iff the index is accepted
rollback_accepts(vt, slide, version_index) ==
    ~(version_index < 0 \/ version_index >= Len(SlideVersionsOf(vt, slide.id)))

\* variant: the pointer moves but the slide's own copy of the content stays
rollback_slide_version_pointer_only(st, vt, slide, version_index) ==
    LET updated == [slide EXCEPT !.current_version = version_index]
    IN  (st \ {slide}) \cup {updated}

rollback_slide_version(st, vt, slide, version_index) ==
    LET version == PyIndex(SlideVersionsOf(vt, slide.id), version_index)
        updated == [slide EXCEPT !.body = version.body,
                                 !.current_version = version_index]
    IN  (st \ {slide}) \cup {updated}

ChatRow(role, related) == [role |-> role, related_slide |-> related]

(***************************************************************************)
(* OutlineService.regenerate_slide: the new version built from the answer   *)
(***************************************************************************)
\* variant: the missing fields are taken from the newest version
regenerate_body_from_newest(slide, data) ==
    LET current == PyIndex(slide.versions, -1).body
    IN  MkBody(DictGet(data, "title", current.title),
               DictGet(data, "content", current.content),
               DictGet(data, "speaker_notes", current.speaker_notes))

\* the version regenerate_slide returns: the fields of the answer, those it
\* leaves out taken from slide.versions[slide.current_version]
regenerate_body(slide, data) ==
    LET current == PyIndex(slide.versions, slide.current_version).body
    IN  MkBody(DictGet(data, "title", current.title),
               DictGet(data, "content", current.content),
               DictGet(data, "speaker_notes", current.speaker_notes))

(***************************************************************************)
(* OutlineService.generate_outline: from the router's answer to the slides  *)
(***************************************************************************)
\* an element of the "slides" list: a JSON object (its keys and values) or
\* something else (a string, a number, null)
Obj(fields) == [is_object |-> TRUE, fields |-> fields]
OutlineEntries ==
    { Obj([content |-> <<"x">>, speaker_notes |-> "n1"]),   \* no title
      Obj([title |-> "T2"]),                      \* no bullets, no notes
      Obj([title |-> NoneVal, content |-> <<>>]), \* "title": null
      [is_object |-> FALSE, fields |-> <<>>] }    \* no object

\* the answer of ai_router.generate_json as generate_outline sees it
NoAnswer == [kind |-> "none", slides |-> <<>>]
\* (no success; no dict, e.g. a JSON array; "slides": null; no "slides"
\* key; a list of slides)
OutlineAnswers ==
    {[kind |-> k, slides |-> <<>>] :
        k \in {"router_failure", "not_a_dict", "slides_null", "no_slides_key"}}
      \cup {[kind |-> "slides", slides |-> es] :
               es \in SeqsUpTo(OutlineEntries, MaxSlides)}

\* f"Slide {i}"
DefaultTitle(i) == <<"Slide 1", "Slide 2", "Slide 3", "Slide 4">>[i]

OutlineRaised(error) == [raised |-> TRUE, error |-> error, bodies |-> <<>>]

\* SlideVersion(...): pydantic accepts the title only if it is a string
slide_version_valid(body) == body.title # NoneVal

\* the loop "for i, slide_data in enumerate(slides_data, 1)"
RECURSIVE outline_slides(_, _, _)
outline_slides(entries, i, acc) ==
    IF i > Len(entries) THEN [raised |-> FALSE, error |-> "", bodies |-> acc]
    ELSE IF ~entries[i].is_object THEN OutlineRaised("AttributeError")
    ELSE LET body == MkBody(DictGet(entries[i].fields, "title", DefaultTitle(i)),
                            DictGet(entries[i].fields, "content", <<>>),
                            DictGet(entries[i].fields, "speaker_notes", NoneVal))
         IN  IF ~slide_version_valid(body) THEN OutlineRaised("ValidationError")
             ELSE outline_slides(entries, i + 1, Append(acc, body))

generate_outline(answer) ==
    CASE answer.kind = "router_failure" -> OutlineRaised("Failed to generate outline")
      [] answer.kind = "not_a_dict" -> OutlineRaised("AttributeError")
      [] answer.kind = "slides_null" -> OutlineRaised("TypeError")
      [] answer.kind = "no_slides_key" -> outline_slides(<<>>, 1, <<>>)
      [] answer.kind = "slides" -> outline_slides(answer.slides, 1, <<>>)

(***************************************************************************)
(* Store operations                                                         *)
(***************************************************************************)
\* the outlines the model answers with: n slides, bodies alternating, so that
\* neighbouring slides and outlines of different length differ in content
Outlines ==
    {[i \in 1..n |-> IF (i + n) % 2 = 0 THEN MkBody("T1", <<"x">>, "n1")
                                        ELSE MkBody("T2", <<>>, NoneVal)] :
        n \in 0..MaxSlides}

GenFailed == "GenerationFailed"

Done(op, n, v, instruction, bodies, result) ==
    [op |-> op, slide_number |-> n, version_index |-> v,
     instruction |-> instruction, bodies |-> bodies, data |-> NoData,
     answer |-> NoAnswer,
     result |-> result,
     \* the store before the operation
     pre |-> [slidesTbl |-> slidesTbl, versionsTbl |-> versionsTbl,
              chatLen |-> Len(chatTbl), sessions |-> sessions],
     \* the last operation before this one that changed the store
     prev |-> IF last.result = "ok" THEN [op |-> last.op, slide_number |-> last.slide_number]
              ELSE last.prev,
     \* ... and the one before that
     prev2 |-> IF last.result = "ok" THEN last.prev ELSE last.prev2,
     \* the slides of the last outline that was stored
     gen |-> IF op = "generate" /\ result = "ok" THEN bodies ELSE last.gen,
     \* the job whose task this operation belongs to (0: a request)
     job |-> 0,
     \* the number of the session in use (sessions are used one after another)
     session |-> last.session]

\* SessionManager.update_session(slides=...): the tables afterwards
update_session(st, vt, bodies) ==
    CreateSlides(delete_slides_for_session(st), vt, bodies, 1)

\* routes.generate_presentation_sync: outline from the router, then
\* SessionManager.update_session(slides=...), then two chat messages.
GenerateOk(bodies) ==
    /\ Cardinality(versionsTbl) + Len(bodies) <= MaxVersionRows
    /\ Len(chatTbl) + 2 <= MaxChat
    /\ LET t == update_session(slidesTbl, versionsTbl, bodies)
           ct == chatTbl \o <<ChatRow("user", NoSlide), ChatRow("assistant", NoSlide)>>
       IN  /\ slidesTbl' = t.st
           /\ versionsTbl' = t.vt
           /\ chatTbl' = ct
           /\ sessions' = db_session_to_schema(t.st, t.vt, ct)
           /\ cached' = TRUE
           /\ last' = Done("generate", 0, 0, "", bodies, "ok")
    /\ UNCHANGED handlers
    /\ UNCHANGED routerVars
    /\ UNCHANGED jobVars

\* routes.generate_presentation_sync with the router's answer as input:
\* generate_outline, then (unless it raised) update_session and the two
\* chat messages
GenerateFromAnswer(answer) ==
    /\ LET r == generate_outline(answer)
       IN  IF r.raised
           THEN /\ last' = [Done("generate", 0, 0, "", <<>>, GenFailed)
                               EXCEPT !.answer = answer]
                /\ UNCHANGED <<slidesTbl, versionsTbl, chatTbl, sessions, cached>>
           ELSE /\ Cardinality(versionsTbl) + Len(r.bodies) <= MaxVersionRows
                /\ Len(chatTbl) + 2 <= MaxChat
                /\ LET t == update_session(slidesTbl, versionsTbl, r.bodies)
                       ct == chatTbl \o <<ChatRow("user", NoSlide),
                                          ChatRow("assistant", NoSlide)>>
                   IN  /\ slidesTbl' = t.st
                       /\ versionsTbl' = t.vt
                       /\ chatTbl' = ct
                       /\ sessions' = db_session_to_schema(t.st, t.vt, ct)
                       /\ cached' = TRUE
                       /\ last' = [Done("generate", 0, 0, "", r.bodies, "ok")
                                      EXCEPT !.answer = answer]
    /\ UNCHANGED handlers
    /\ UNCHANGED routerVars
    /\ UNCHANGED jobVars

\* the outline generation raised: nothing is written
GenerateFail ==
    /\ last' = Done("generate", 0, 0, "", <<>>, GenFailed)
    /\ UNCHANGED <<slidesTbl, versionsTbl, chatTbl, sessions, cached>>
    /\ UNCHANGED handlers
    /\ UNCHANGED routerVars
    /\ UNCHANGED jobVars

\* variant: the lower bound of the slide index is not checked
slide_in_range_no_lower_bound(session, slide_number) ==
    ~(slide_number - 1 >= Len(session.slides))

\* SlideService.update_slide: the range check on the cached session
slide_in_range(session, slide_number) ==
    ~(slide_number - 1 < 0 \/ slide_number - 1 >= Len(session.slides))

\* SlideService.update_slide; ok says whether the router answered the
\* regeneration prompt with success, data is the parsed JSON object then
UpdateSlide(n, instruction, ok, data) ==
    /\ IF ~slide_in_range(sessions, n)
       THEN \* raise ValueError("Slide n not found")
            /\ last' = Done("update", n, 0, instruction, <<>>, "ValueError")
            /\ UNCHANGED <<slidesTbl, versionsTbl, chatTbl, sessions, cached>>
       ELSE IF ~PyInRange(sessions.slides, n - 1)
       THEN \* session.slides[slide_idx] raises
            /\ last' = Done("update", n, 0, instruction, <<>>, "IndexError")
            /\ UNCHANGED <<slidesTbl, versionsTbl, chatTbl, sessions, cached>>
       ELSE IF ~ok
       THEN \* regenerate_slide raises
            /\ last' = Done("update", n, 0, instruction, <<>>, GenFailed)
            /\ UNCHANGED <<slidesTbl, versionsTbl, chatTbl, sessions, cached>>
       ELSE LET slide == PyIndex(sessions.slides, n - 1)
                body == regenerate_body(slide, data)
                found == SlidesNumbered(slidesTbl, n)
                ct == chatTbl \o <<ChatRow("user", n), ChatRow("assistant", n)>>
            IN  /\ Cardinality(versionsTbl) + 1 <= MaxVersionRows
                /\ Len(chatTbl) + 2 <= MaxChat
                /\ IF found = {}
                   THEN \* SessionManager.update_slide returns None; the two
                        \* chat messages are written all the same
                        /\ UNCHANGED <<slidesTbl, versionsTbl>>
                        /\ chatTbl' = ct
                        /\ sessions' = db_session_to_schema(slidesTbl, versionsTbl, ct)
                        /\ cached' = TRUE
                        /\ last' = Done("update", n, 0, instruction, <<>>, "None")
                   ELSE LET db_slide == CHOOSE s \in found : TRUE
                            t == update_slide_content(slidesTbl, versionsTbl,
                                                      db_slide, body, instruction)
                        IN  /\ slidesTbl' = t.st
                            /\ versionsTbl' = t.vt
                            /\ chatTbl' = ct
                            /\ sessions' = db_session_to_schema(t.st, t.vt, ct)
                            /\ cached' = TRUE
                            /\ last' = [Done("update", n, 0, instruction, <<>>, "ok")
                                           EXCEPT !.data = data]
    /\ UNCHANGED handlers
    /\ UNCHANGED routerVars
    /\ UNCHANGED jobVars

\* variant: the new version is not validated
regenerate_raises_unvalidated(slide, answer, data) == answer # "object"

\* OutlineService.regenerate_slide raises: the router's answer is no
\* success, or the JSON document is no object (data.get), or SlideVersion
\* rejects the fields.  answer: "router_failure", "not_a_dict" or "object";
\* data: the keys and values of the object
regenerate_raises(slide, answer, data) ==
    \/ answer # "object"
    \/ ~slide_version_valid(regenerate_body(slide, data))

\* SlideService.update_slide with the router's answer to the regeneration
\* prompt as input
UpdateFromAnswer(n, instruction, answer, data) ==
    IF /\ slide_in_range(sessions, n)
       /\ regenerate_raises(PyIndex(sessions.slides, n - 1), answer, data)
    THEN \* the exception leaves update_slide at "await regenerate_slide"
         /\ last' = [Done("update", n, 0, instruction, <<>>, GenFailed)
                        EXCEPT !.answer = [kind |-> answer, slides |-> <<>>],
                               !.data = data]
         /\ UNCHANGED <<slidesTbl, versionsTbl, chatTbl, sessions, cached, handlers>>
         /\ UNCHANGED routerVars
         /\ UNCHANGED jobVars
    ELSE UpdateSlide(n, instruction, TRUE, data)

\* SlideService.rollback_slide
RollbackSlide(n, version_index) ==
    /\ LET found == SlidesNumbered(slidesTbl, n)
           fail == /\ UNCHANGED <<slidesTbl, versionsTbl, chatTbl, sessions, cached>>
                   /\ last' = Done("rollback", n, version_index, "", <<>>, "None")
       IN  IF found = {} THEN fail
           ELSE LET db_slide == CHOOSE s \in found : TRUE
                IN  IF ~rollback_accepts(versionsTbl, db_slide, version_index)
                    THEN fail
                    ELSE LET st == rollback_slide_version(slidesTbl, versionsTbl,
                                                          db_slide, version_index)
                             ct == Append(chatTbl, ChatRow("assistant", n))
                         IN  /\ Len(chatTbl) + 1 <= MaxChat
                             /\ slidesTbl' = st
                             /\ UNCHANGED versionsTbl
                             /\ chatTbl' = ct
                             /\ sessions' = db_session_to_schema(st, versionsTbl, ct)
                             /\ cached' = TRUE
                             /\ last' = Done("rollback", n, version_index, "", <<>>, "ok")
    /\ UNCHANGED handlers
    /\ UNCHANGED routerVars
    /\ UNCHANGED jobVars

\* crud.delete_session: db.delete(session) with the ORM cascades of
\* SessionModel.slides and SlideModel.versions; the versions that go are
\* those the relationship loads, the rows whose slide_id is a slide's id
delete_session_rows(st, vt) ==
    [st |-> {}, vt |-> {v \in vt : ~\E r \in st : v.slide_id = r.id}]

\* the session in use has not been deleted
SessionExists == last.op # "delete_session"

\* SessionManager.delete_session
DeleteSession ==
    /\ SessionExists
    /\ LET t == delete_session_rows(slidesTbl, versionsTbl)
       IN  /\ slidesTbl' = t.st
           /\ versionsTbl' = t.vt
           /\ chatTbl' = <<>>
           /\ sessions' = db_session_to_schema({}, {}, <<>>)
           /\ cached' = FALSE
           /\ last' = Done("delete_session", 0, 0, "", <<>>, "ok")
    /\ UNCHANGED handlers
    /\ UNCHANGED routerVars
    /\ UNCHANGED jobVars

\* SessionManager.create_session: the next session comes into use
CreateSession ==
    /\ ~SessionExists
    /\ last.session < MaxSessions
    /\ sessions' = db_session_to_schema({}, {}, <<>>)
    /\ cached' = TRUE
    /\ last' = [Done("create_session", 0, 0, "", <<>>, "ok")
                   EXCEPT !.session = last.session + 1]
    /\ UNCHANGED <<slidesTbl, versionsTbl, chatTbl>>
    /\ UNCHANGED handlers
    /\ UNCHANGED routerVars
    /\ UNCHANGED jobVars

(***************************************************************************)
(* Slide edits await by await.  SessionManager.update_slide and            *)
(* rollback_slide load the slide (crud.get_slide), commit the change and   *)
(* reload the session into the cache; other coroutines run at each await.  *)
(***************************************************************************)
HandlerIds == {"a", "b"}

IdleHandler == [pc |-> "idle", op |-> "none", n |-> 0, version_index |-> 0,
                body |-> MkBody("", <<>>, NoneVal),
                \* the SlideModel and its versions as get_slide loaded them
                slide |-> [id |-> 0, slide_number |-> 0,
                           body |-> MkBody("", <<>>, NoneVal), current_version |-> 0],
                versions |-> {},
                \* history: another edit was between its load and its commit
                \* when this one loaded the slide
                overlap |-> FALSE]

\* edits between get_slide and the end of the request
InFlight == {h \in HandlerIds : handlers[h].pc # "idle"}

\* variant: the UPDATE is not restricted to the slide's primary key
orm_flush_unfiltered(st, loaded, updated) ==
    {[r EXCEPT !.body = updated.body, !.current_version = updated.current_version] :
        r \in st}

\* db.commit() of a session that holds a modified SlideModel: UPDATE slides
\* SET <the attributes whose value differs from the loaded one> WHERE id = ...
orm_flush(st, loaded, updated) ==
    {IF r.id = loaded.id
     THEN [r EXCEPT !.body = IF updated.body # loaded.body THEN updated.body ELSE @,
                    !.current_version =
                        IF updated.current_version # loaded.current_version
                        THEN updated.current_version ELSE @]
     ELSE r : r \in st}

\* SessionManager.update_slide / rollback_slide up to the return of
\* "await crud.get_slide(...)" with a slide
EditGetSlide(h, op, n, body, version_index) ==
    /\ handlers[h].pc = "idle"
    /\ SlidesNumbered(slidesTbl, n) # {}
    \* the tables are bounded: room for what the edits in flight will insert
    /\ LET updates == Cardinality({g \in InFlight : handlers[g].op = "update"})
           mine == IF op = "update" THEN 1 ELSE 0
       IN  /\ Cardinality(versionsTbl) + updates + mine <= MaxVersionRows
           /\ Len(chatTbl) + updates + Cardinality(InFlight) + mine + 1 <= MaxChat
    /\ LET db_slide == CHOOSE r \in SlidesNumbered(slidesTbl, n) : TRUE
       IN  handlers' = [handlers EXCEPT ![h] =
              [pc |-> "loaded", op |-> op, n |-> n,
               version_index |-> IF op = "rollback" THEN version_index ELSE 0,
               body |-> IF op = "update" THEN body ELSE IdleHandler.body,
               slide |-> db_slide,
               versions |-> {v \in versionsTbl : v.slide_id = db_slide.id},
               overlap |-> \E g \in HandlerIds \ {h} : handlers[g].pc = "loaded"]]
    /\ UNCHANGED <<slidesTbl, versionsTbl, chatTbl, sessions, cached, last>>
    /\ UNCHANGED routerVars
    /\ UNCHANGED jobVars

\* crud.update_slide_content / crud.rollback_slide_version on the loaded
\* slide, up to the return of "await db.commit()"
EditCommit(h) ==
    /\ handlers[h].pc = "loaded"
    /\ LET e == handlers[h]
       IN  IF e.op = "update"
           THEN LET t == update_slide_content({e.slide}, e.versions, e.slide, e.body,
                                              "make it shorter")
                    updated == CHOOSE r \in t.st : TRUE
                    version == CHOOSE v \in t.vt \ e.versions : TRUE
                IN  /\ versionsTbl' = versionsTbl \cup
                                         {[version EXCEPT !.id = NextRowId(versionsTbl)]}
                    /\ slidesTbl' = orm_flush(slidesTbl, e.slide, updated)
                    /\ handlers' = [handlers EXCEPT ![h].pc = "committed"]
           ELSE IF ~rollback_accepts(e.versions, e.slide, e.version_index)
           THEN \* return None
                /\ handlers' = [handlers EXCEPT ![h] = IdleHandler]
                /\ UNCHANGED <<slidesTbl, versionsTbl>>
           ELSE LET st == rollback_slide_version({e.slide}, e.versions, e.slide,
                                                 e.version_index)
                    updated == CHOOSE r \in st : TRUE
                IN  /\ slidesTbl' = orm_flush(slidesTbl, e.slide, updated)
                    /\ handlers' = [handlers EXCEPT ![h].pc = "committed"]
                    /\ UNCHANGED versionsTbl
    /\ UNCHANGED <<chatTbl, sessions, cached, last>>
    /\ UNCHANGED routerVars
    /\ UNCHANGED jobVars

\* the rest of the request: the session is reloaded into the cache, and
\* SlideService adds its chat messages (each reloads the session again)
EditFinish(h) ==
    /\ handlers[h].pc = "committed"
    /\ LET e == handlers[h]
           ct == IF e.op = "update"
                 THEN chatTbl \o <<ChatRow("user", e.n), ChatRow("assistant", e.n)>>
                 ELSE Append(chatTbl, ChatRow("assistant", e.n))
       IN  /\ chatTbl' = ct
           /\ sessions' = db_session_to_schema(slidesTbl, versionsTbl, ct)
           /\ cached' = TRUE
    /\ handlers' = [handlers EXCEPT ![h] = IdleHandler]
    /\ UNCHANGED <<slidesTbl, versionsTbl, last>>
    /\ UNCHANGED routerVars
    /\ UNCHANGED jobVars

\* SessionManager.delete_session, up to its first await: the cache entry
\* is removed
DeleteBegin(h) ==
    /\ handlers[h].pc = "idle"
    /\ cached' = FALSE
    /\ sessions' = db_session_to_schema({}, {}, <<>>)
    /\ handlers' = [handlers EXCEPT ![h] =
                        [IdleHandler EXCEPT !.pc = "popped", !.op = "delete_session"]]
    /\ UNCHANGED <<slidesTbl, versionsTbl, chatTbl, last>>
    /\ UNCHANGED routerVars
    /\ UNCHANGED jobVars

\* SessionManager.delete_session, crud.delete_session: the row and what
\* hangs on it are deleted and committed, if the row is still there
DeleteCommit(h) ==
    /\ handlers[h].pc = "popped"
    /\ IF SessionExists
       THEN LET t == delete_session_rows(slidesTbl, versionsTbl)
            IN  /\ slidesTbl' = t.st
                /\ versionsTbl' = t.vt
                /\ chatTbl' = <<>>
                /\ last' = Done("delete_session", 0, 0, "", <<>>, "ok")
       ELSE UNCHANGED <<slidesTbl, versionsTbl, chatTbl, last>>
    /\ handlers' = [handlers EXCEPT ![h] = IdleHandler]
    /\ UNCHANGED <<sessions, cached>>
    /\ UNCHANGED routerVars
    /\ UNCHANGED jobVars

\* SessionManager.get_session, up to its first await: the id is not in
\* the cache
GetMiss(h) ==
    /\ handlers[h].pc = "idle"
    /\ ~cached
    /\ handlers' = [handlers EXCEPT ![h] =
                        [IdleHandler EXCEPT !.pc = "miss", !.op = "get_session"]]
    /\ UNCHANGED <<slidesTbl, versionsTbl, chatTbl, sessions, last, cached>>
    /\ UNCHANGED routerVars
    /\ UNCHANGED jobVars

\* SessionManager.get_session, after crud.get_session_by_uuid: a row that
\* was found is converted and put into the cache
GetLoad(h) ==
    /\ handlers[h].pc = "miss"
    /\ IF SessionExists
       THEN /\ sessions' = db_session_to_schema(slidesTbl, versionsTbl, chatTbl)
            /\ cached' = TRUE
       ELSE UNCHANGED <<sessions, cached>>
    /\ handlers' = [handlers EXCEPT ![h] = IdleHandler]
    /\ UNCHANGED <<slidesTbl, versionsTbl, chatTbl, last>>
    /\ UNCHANGED routerVars
    /\ UNCHANGED jobVars

StoreInit ==
    /\ handlers = [h \in HandlerIds |-> IdleHandler]
    /\ cached = TRUE
    /\ slidesTbl = {}
    /\ versionsTbl = {}
    /\ chatTbl = <<>>
    /\ sessions = db_session_to_schema({}, {}, <<>>)
    /\ last = [op |-> "create_session", slide_number |-> 0, version_index |-> 0,
               instruction |-> "", bodies |-> <<>>, data |-> NoData,
               answer |-> NoAnswer,
               result |-> "ok",
               pre |-> [slidesTbl |-> {}, versionsTbl |-> {}, chatLen |-> 0,
                        sessions |-> db_session_to_schema({}, {}, <<>>)],
               prev |-> [op |-> "none", slide_number |-> 0],
               prev2 |-> [op |-> "none", slide_number |-> 0],
               gen |-> <<>>, job |-> 0, session |-> 1]

(***************************************************************************)
(* Texts.  ProviderResponse.content and Job.error are Optional[str]; a text *)
(* is a sequence of tokens.  The tokens of a model answer: the fence        *)
(* marker, the language tag, whitespace, a JSON document, other text.       *)
(***************************************************************************)
NoText == [is_none |-> TRUE, text |-> <<>>]
Text(t) == [is_none |-> FALSE, text |-> t]

FENCE == "<fence>"      \* three backticks
LANG == "json"
WS == " "
DOC == "{}"
JUNK == "x"

MaxBody == 4          \* tokens in a model answer

StartsWith(s, prefix) ==
    Len(s) >= Len(prefix) /\ SubSeq(s, 1, Len(prefix)) = prefix
EndsWith(s, suffix) ==
    Len(s) >= Len(suffix) /\ SubSeq(s, Len(s) - Len(suffix) + 1, Len(s)) = suffix
Drop(s, n) == SubSeq(s, n + 1, Len(s))

\* str.strip()
RECURSIVE lstrip(_)
lstrip(s) == IF s # <<>> /\ Head(s) = WS THEN lstrip(Tail(s)) ELSE s
RECURSIVE rstrip(_)
rstrip(s) == IF s # <<>> /\ s[Len(s)] = WS THEN rstrip(SubSeq(s, 1, Len(s) - 1)) ELSE s
strip(s) == rstrip(lstrip(s))

\* json.loads(content) does not raise: one document, whitespace around it
json_loads_ok(s) == strip(s) = <<DOC>>

\* variant: the closing fence marker is left in place
clean_json_content_keep_closing(s) ==
    LET a == strip(s)
        b == IF StartsWith(a, <<FENCE, LANG>>) THEN Drop(a, 2) ELSE a
        c == IF StartsWith(b, <<FENCE>>) THEN Drop(b, 1) ELSE b
    IN  strip(c)

\* GroqProvider.generate_json / GeminiProvider.generate_json: the clean-up
\* of markdown formatting
clean_json_content(s) ==
    LET a == strip(s)
        b == IF StartsWith(a, <<FENCE, LANG>>) THEN Drop(a, 2) ELSE a
        c == IF StartsWith(b, <<FENCE>>) THEN Drop(b, 1) ELSE b
        d == IF EndsWith(c, <<FENCE>>) THEN SubSeq(c, 1, Len(c) - 1) ELSE c
    IN  strip(d)

(***************************************************************************)
(* JobManager (job_service) and the generation task it runs                 *)
(* (routes._generate_presentation_task).  jobs is the dict self.jobs in     *)
(* insertion order, a job's id its position; queue is self._queue; consumer *)
(* is the one process_jobs coroutine started by main.lifespan.              *)
(***************************************************************************)
MaxJobs == 3          \* jobs ever submitted

PENDING == "pending"
PROCESSING == "processing"
COMPLETED == "completed"
FAILED == "failed"

\* Job(...) as create_job builds it; outcome is history: how its task ended
\* completed_at is the empty set for None and {t} for the time t; in_jobs
\* says that the id is a key of JobManager.jobs
NewJob == [status |-> PENDING, progress |-> 0, error |-> NoText,
           completed_at |-> {}, in_jobs |-> TRUE, outcome |-> "none",
           \* history: the job whose task was running when this one was
           \* submitted (0: none)
           behind |-> 0]

\* the consumer at "await asyncio.wait_for(self._queue.get(), ...)"; running
\* is JobManager._running
IdleConsumer == [pc |-> "waiting", job |-> 0, task |-> "none", slides |-> <<>>,
                 running |-> TRUE,
                 \* history: the cached slides when the task began to replace them
                 old |-> <<>>]

\* the messages of the exceptions a step of the task raises (str(e))
InnerErrors == {<<>>, <<"Session not found">>}

\* variant: the exception is passed on as it is
generation_task_error_unwrapped(inner) == inner

\* routes._generate_presentation_task, "except Exception as e: raise Exception(...)"
generation_task_error(inner) == <<"Failed to generate presentation: ">> \o inner

\* variant: the status is left as it is when the task starts
execute_job_begin_stays_pending(job) == [job EXCEPT !.progress = 0]

\* JobManager._execute_job, before the task is called
execute_job_begin(job) == [job EXCEPT !.status = PROCESSING, !.progress = 0]

\* variant: the job is not marked when the task returned
execute_job_completed_unmarked(job, t) ==
    [job EXCEPT !.progress = 100, !.outcome = "returned"]

\* JobManager._execute_job, after the task returned
execute_job_completed(job, t) ==
    [job EXCEPT !.status = COMPLETED, !.progress = 100, !.completed_at = {t},
                !.outcome = "returned"]

\* variant: the time of the failure is not recorded
execute_job_failed_no_timestamp(job, message, t) ==
    [job EXCEPT !.status = FAILED, !.error = Text(message), !.outcome = "raised"]

\* variant: the progress is reset when the task raised
execute_job_failed_resets_progress(job, message, t) ==
    [job EXCEPT !.status = FAILED, !.progress = 0, !.error = Text(message),
                !.completed_at = {t}, !.outcome = "raised"]

\* JobManager._execute_job, "except Exception as e"
execute_job_failed(job, message, t) ==
    [job EXCEPT !.status = FAILED, !.error = Text(message), !.completed_at = {t},
                !.outcome = "raised"]

\* variant: the progress is written to the job submitted last
update_job_progress_newest(js, job_id, progress) ==
    IF js # <<>> THEN [js EXCEPT ![Len(js)].progress = progress] ELSE js

\* JobManager.update_job_progress
update_job_progress(js, job_id, progress) ==
    IF job_id \in 1..Len(js) /\ js[job_id].in_jobs THEN [js EXCEPT ![job_id].progress = progress] ELSE js

\* variant: the next job is taken while a task is still running
consumer_ready_while_running(cons) == TRUE

\* JobManager.process_jobs: the loop is at "await self._queue.get()" only
\* when the "await self._execute_job(job)" before it has returned
consumer_ready(cons) == cons.pc = "waiting"

\* variant: the exception leaves the loop
consumer_after_failure_stops(cons) == [IdleConsumer EXCEPT !.pc = "stopped"]

\* variant: the loop condition is always true
loop_top_ignores_stop(cons) == [IdleConsumer EXCEPT !.running = cons.running]

\* JobManager.process_jobs, "while self._running": the loop goes on to the
\* next wait, or ends once stop() has cleared the flag
loop_top(cons) ==
    IF cons.running THEN IdleConsumer
    ELSE [IdleConsumer EXCEPT !.pc = "exited", !.running = FALSE]

\* JobManager.process_jobs after _execute_job has caught the task's exception
consumer_after_failure(cons) == loop_top(cons)

\* variant: the id is put at the front of the queue
CreateJob_put_front ==
    /\ Len(jobs) < MaxJobs
    /\ jobs' = Append(jobs, [NewJob EXCEPT !.behind =
                                IF consumer.pc = "executing" THEN consumer.job ELSE 0])
    /\ queue' = <<Len(jobs) + 1>> \o queue
    /\ UNCHANGED consumer
    /\ UNCHANGED storeVars
    /\ UNCHANGED routerVars

\* JobManager.create_job
CreateJob ==
    /\ Len(jobs) < MaxJobs
    /\ jobs' = Append(jobs, [NewJob EXCEPT !.behind =
                                IF consumer.pc = "executing" THEN consumer.job ELSE 0])
    /\ queue' = Append(queue, Len(jobs) + 1)
    /\ UNCHANGED consumer
    /\ UNCHANGED storeVars
    /\ UNCHANGED routerVars

\* JobManager.process_jobs takes the next id from the queue and
\* _execute_job starts its task
Dequeue ==
    /\ consumer_ready(consumer)
    /\ queue # <<>>
    /\ LET job_id == Head(queue)
       IN  /\ queue' = Tail(queue)
           /\ jobs' = [jobs EXCEPT ![job_id] = execute_job_begin(@)]
           /\ consumer' = [pc |-> "executing", job |-> job_id,
                           task |-> "get_session", slides |-> <<>>,
                           running |-> consumer.running, old |-> <<>>]
    /\ UNCHANGED storeVars
    /\ UNCHANGED routerVars

\* the task: the session is there, progress 10, the outline is asked for
TaskGetSession ==
    /\ consumer.pc = "executing" /\ consumer.task = "get_session"
    /\ jobs' = update_job_progress(jobs, consumer.job, 10)
    /\ consumer' = [consumer EXCEPT !.task = "outline"]
    /\ UNCHANGED queue
    /\ UNCHANGED storeVars
    /\ UNCHANGED routerVars

\* the task: generate_outline returned the slides, progress 70
TaskOutline(bodies) ==
    /\ consumer.pc = "executing" /\ consumer.task = "outline"
    /\ Cardinality(versionsTbl) + Len(bodies) <= MaxVersionRows
    /\ Len(chatTbl) + 2 <= MaxChat
    /\ jobs' = update_job_progress(jobs, consumer.job, 70)
    /\ consumer' = [consumer EXCEPT !.task = "build", !.slides = bodies]
    /\ UNCHANGED queue
    /\ UNCHANGED storeVars
    /\ UNCHANGED routerVars

\* the task: SessionManager.update_session(slides=...), the two chat
\* messages, progress 90
TaskBuild ==
    /\ consumer.pc = "executing" /\ consumer.task = "build"
    /\ LET t == update_session(slidesTbl, versionsTbl, consumer.slides)
           ct == chatTbl \o <<ChatRow("user", NoSlide), ChatRow("assistant", NoSlide)>>
       IN  /\ slidesTbl' = t.st
           /\ versionsTbl' = t.vt
           /\ chatTbl' = ct
           /\ sessions' = db_session_to_schema(t.st, t.vt, ct)
           /\ cached' = TRUE
           /\ last' = [Done("generate", 0, 0, "", consumer.slides, "ok")
                          EXCEPT !.job = consumer.job]
    /\ jobs' = update_job_progress(jobs, consumer.job, 90)
    /\ consumer' = [consumer EXCEPT !.task = "finalize"]
    /\ UNCHANGED queue
    /\ UNCHANGED handlers
    /\ UNCHANGED routerVars

\* TaskBuild await by await, for requests that run between the awaits.
\* SessionManager.update_session up to the commit of
\* crud.delete_slides_for_session: the slide rows are gone, the cache is
\* not touched
BuildDelete ==
    /\ consumer.pc = "executing" /\ consumer.task = "build"
    /\ slidesTbl' = delete_slides_for_session(slidesTbl)
    /\ consumer' = [consumer EXCEPT !.task = "create", !.old = sessions.slides]
    /\ UNCHANGED <<versionsTbl, chatTbl, sessions, cached, last>>
    /\ UNCHANGED <<jobs, queue>>
    /\ UNCHANGED handlers
    /\ UNCHANGED routerVars

\* SessionManager.update_session, one "await crud.create_slide(...)": the
\* next slide and its version 0 are committed, the cache is not touched
BuildCreateSlide ==
    /\ consumer.pc = "executing" /\ consumer.task = "create"
    /\ Cardinality(slidesTbl) < Len(consumer.slides)
    /\ LET k == Cardinality(slidesTbl) + 1
           s == create_slide_row(slidesTbl, k, consumer.slides[k])
           v == create_slide_version(versionsTbl, s.id, consumer.slides[k],
                                     INITIAL_INSTRUCTION)
       IN  /\ slidesTbl' = slidesTbl \cup {s}
           /\ versionsTbl' = versionsTbl \cup {v}
    /\ UNCHANGED <<chatTbl, sessions, cached, last>>
    /\ UNCHANGED jobVars
    /\ UNCHANGED handlers
    /\ UNCHANGED routerVars

\* SessionManager.update_session, "Refresh and convert": the session is
\* read again and put into the cache
BuildRefresh ==
    /\ consumer.pc = "executing" /\ consumer.task = "create"
    /\ Cardinality(slidesTbl) = Len(consumer.slides)
    /\ sessions' = db_session_to_schema(slidesTbl, versionsTbl, chatTbl)
    /\ cached' = TRUE
    /\ last' = [Done("generate", 0, 0, "", consumer.slides, "ok")
                   EXCEPT !.job = consumer.job]
    /\ consumer' = [consumer EXCEPT !.task = "chat"]
    /\ UNCHANGED <<slidesTbl, versionsTbl, chatTbl>>
    /\ UNCHANGED <<jobs, queue>>
    /\ UNCHANGED handlers
    /\ UNCHANGED routerVars

\* the task's two add_chat_message calls (each refreshes the cache), then
\* progress 90
BuildChat ==
    /\ consumer.pc = "executing" /\ consumer.task = "chat"
    /\ LET ct == chatTbl \o <<ChatRow("user", NoSlide), ChatRow("assistant", NoSlide)>>
       IN  /\ chatTbl' = ct
           /\ sessions' = db_session_to_schema(slidesTbl, versionsTbl, ct)
           /\ cached' = TRUE
    /\ jobs' = update_job_progress(jobs, consumer.job, 90)
    /\ consumer' = [consumer EXCEPT !.task = "finalize"]
    /\ UNCHANGED <<slidesTbl, versionsTbl, last>>
    /\ UNCHANGED queue
    /\ UNCHANGED handlers
    /\ UNCHANGED routerVars

\* the task: the file is written, progress 100, the task returns and
\* _execute_job marks the job
TaskReturn ==
    /\ consumer.pc = "executing" /\ consumer.task = "finalize"
    /\ jobs' = [update_job_progress(jobs, consumer.job, 100)
                   EXCEPT ![consumer.job] = execute_job_completed(@, now)]
    /\ consumer' = loop_top(consumer)
    /\ UNCHANGED queue
    /\ UNCHANGED storeVars
    /\ UNCHANGED routerVars

\* a step of the task raises; the task wraps the exception and
\* _execute_job marks the job
TaskRaise(inner) ==
    /\ consumer.pc = "executing"
    /\ jobs' = [jobs EXCEPT ![consumer.job] =
                   execute_job_failed(@, generation_task_error(inner), now)]
    /\ consumer' = consumer_after_failure(consumer)
    /\ UNCHANGED queue
    /\ UNCHANGED storeVars
    /\ UNCHANGED routerVars

\* JobManager.JOB_RETENTION_HOURS, in ticks of the clock (a tick stands
\* for the code's 24 hours)
JOB_RETENTION_HOURS == 1

\* variant: a job is removed as soon as its age reaches the horizon
cleanup_old_jobs_at_horizon(js, t) ==
    [id \in 1..Len(js) |->
        IF /\ js[id].in_jobs
           /\ \E completed_at \in js[id].completed_at :
                  t - completed_at >= JOB_RETENTION_HOURS
        THEN [js[id] EXCEPT !.in_jobs = FALSE]
        ELSE js[id]]

\* JobManager.cleanup_old_jobs: the ids whose job has a completed_at more
\* than JOB_RETENTION_HOURS before t are collected, then deleted
cleanup_old_jobs(js, t) ==
    [id \in 1..Len(js) |->
        IF /\ js[id].in_jobs
           /\ \E completed_at \in js[id].completed_at :
                  t - completed_at > JOB_RETENTION_HOURS
        THEN [js[id] EXCEPT !.in_jobs = FALSE]
        ELSE js[id]]

\* JobManager.cleanup_old_jobs is called (it has no await: one step)
CleanupOldJobs ==
    /\ jobs' = cleanup_old_jobs(jobs, now)
    /\ UNCHANGED <<queue, consumer>>
    /\ UNCHANGED storeVars
    /\ UNCHANGED routerVars

\* JobManager.stop
Stop ==
    /\ consumer.running
    /\ consumer.pc \in {"waiting", "executing"}
    /\ consumer' = [consumer EXCEPT !.running = FALSE]
    /\ UNCHANGED <<jobs, queue>>
    /\ UNCHANGED storeVars
    /\ UNCHANGED routerVars

\* JobManager.process_jobs: the wait for an item timed out after stop(),
\* "continue" leads to the loop condition and the loop ends
LoopTimeout ==
    /\ consumer.pc = "waiting"
    /\ ~consumer.running
    /\ queue = <<>>
    /\ consumer' = loop_top(consumer)
    /\ UNCHANGED <<jobs, queue>>
    /\ UNCHANGED storeVars
    /\ UNCHANGED routerVars

\* variant: the cancellation is caught like a failure of the task
cancel_in_flight_marks_failed(job) == execute_job_failed(job, <<"">>, 0)

\* asyncio.CancelledError raised at the await the task is suspended on: it is
\* no Exception, so neither the task's nor _execute_job's "except Exception"
\* catches it and the job record is left as it is
cancel_in_flight(job) == job

\* main.lifespan, shutdown: job_task.cancel().  The CancelledError is raised
\* in the consumer where it is suspended (in the wait for an item or inside
\* the task) and ends process_jobs at "except asyncio.CancelledError: break"
Cancel ==
    /\ consumer.pc \in {"waiting", "executing"}
    /\ consumer' = [consumer EXCEPT !.pc = "cancelled"]
    /\ jobs' = IF consumer.pc = "executing"
               THEN [jobs EXCEPT ![consumer.job] = cancel_in_flight(@)]
               ELSE jobs
    /\ UNCHANGED queue
    /\ UNCHANGED storeVars
    /\ UNCHANGED routerVars

JobInit ==
    /\ jobs = <<>>
    /\ queue = <<>>
    /\ consumer = IdleConsumer

(***************************************************************************)
(* Provider clients (BaseLLMProvider, GroqProvider, GeminiProvider)         *)
(***************************************************************************)
Providers == {"Groq", "Gemini"}
Priority == <<"Groq", "Gemini">>      \* order of AIRouter._initialize_providers

AVAILABLE == "available"
RATE_LIMITED == "rate_limited"
ERROR == "error"
UNAVAILABLE == "unavailable"

\* what the HTTP exchange of one provider call ends in
HttpOutcomes == {"ok", "rate_limit", "http_error", "timeout"}

ErrRateLimit == "Rate limit exceeded"
ErrHttp == "HTTP 500"
ErrTimeout == "Request timeout"
ErrInvalidJson == "Invalid JSON response"

\* what provider.generate_text / generate_json hands to the router: a
\* ProviderResponse, or an exception (raised) with its message in error
ProviderResponse(success, content, error) ==
    [raised |-> FALSE, success |-> success, content |-> content, error |-> error]
Raised(error) ==
    [raised |-> TRUE, success |-> FALSE, content |-> NoText, error |-> error]

\* GroqProvider.generate_text: the response for the outcome of the exchange
generate_text_response(outcome, body) ==
    IF outcome = "ok" THEN ProviderResponse(TRUE, body, NoneVal)
    ELSE ProviderResponse(FALSE, Text(<<>>),
                          CASE outcome = "rate_limit" -> ErrRateLimit
                            [] outcome = "http_error" -> ErrHttp
                            [] OTHER -> ErrTimeout)

\* GroqProvider.generate_json: what it makes of generate_text's response
generate_json_response(response) ==
    IF ~response.success THEN response
    ELSE IF response.content.is_none
    THEN Raised("'NoneType' object has no attribute 'strip'")          \* response.content.strip() on None
    ELSE LET content == clean_json_content(response.content.text)
         IN  IF json_loads_ok(content)
             THEN [response EXCEPT !.content = Text(content)]
             ELSE [response EXCEPT !.success = FALSE, !.error = ErrInvalidJson]

provider_response(mode, outcome, body) ==
    IF mode = "json" THEN generate_json_response(generate_text_response(outcome, body))
    ELSE generate_text_response(outcome, body)

(***************************************************************************)
(* AIRouter                                                                 *)
(***************************************************************************)
COOLDOWN_MINUTES == 1
NoCooldown == -1      \* provider_name not in self._cooldowns
MaxTime == 2          \* the clock stops here (minutes)
\* the coroutines that call the router: the generation task run by the job
\* loop and a request handler (slide update, synchronous generation)
CallIds == {"job", "request"}

NoError == [kind |-> "none", last |-> NoneVal]

NothingHanded ==
    [provider |-> "", body |-> NoText,
     response |-> [raised |-> FALSE, success |-> FALSE, content |-> NoText,
                   error |-> NoneVal]]

IdleCall ==
    [pc |-> "idle", mode |-> "text", available |-> <<>>, idx |-> 0,
     outcome |-> "none", body |-> NoText,
     last_error |-> NoneVal, result |-> [success |-> FALSE, provider_name |-> "", error |-> NoError], content |-> NoText,
     \* history of this call
     invoked |-> <<>>,        \* providers whose generate_text was called
     cold |-> {},             \* ... while their cooldown entry had not expired
     skipped |-> {},          \* ... and that answered without asking their backend
     got_ok |-> {},           \* providers that answered this call with success
     responses |-> <<>>,      \* what each candidate handed back (content left
                              \* out), with the HTTP outcome it was made from
     handed |-> NothingHanded, \* the successful one in full, with the content
                              \* of the HTTP answer it was made from
     thawed |-> {},           \* providers whose cooldown entry had expired
                              \* when the call started
     rl_at |-> [p \in Providers |-> -1],   \* when p answered it with the 429 signal
     cold_ref |-> {}]         \* <<p, c>>: p was invoked within COOLDOWN_MINUTES
                              \* of the 429 signal p gave to call c

Handed(p, outcome, response) ==
    [provider |-> p, outcome |-> outcome, raised |-> response.raised,
     success |-> response.success, error |-> response.error]
InFull(p, body, response) == [provider |-> p, body |-> body, response |-> response]

\* AIRouter._is_in_cooldown (the verdict)
is_in_cooldown(cd, p, t) ==
    IF cd[p] = NoCooldown THEN FALSE
    ELSE IF t > cd[p] THEN FALSE
    ELSE TRUE

\* AIRouter._is_in_cooldown (the lazy removal of an expired entry)
expire_cooldowns(cd, provs, t) ==
    [p \in Providers |->
        IF (\E i \in 1..Len(provs) : provs[i] = p) /\ cd[p] # NoCooldown /\ t > cd[p]
        THEN NoCooldown ELSE cd[p]]

\* AIRouter._set_cooldown
set_cooldown(cd, p, t) == [cd EXCEPT ![p] = t + COOLDOWN_MINUTES]

RECURSIVE FilterSeq(_, _)
FilterSeq(seq, keep) ==
    IF seq = <<>> THEN <<>>
    ELSE (IF Head(seq) \in keep THEN <<Head(seq)>> ELSE <<>>) \o FilterSeq(Tail(seq), keep)

\* AIRouter.get_available_providers
get_available_providers(provs, cd, st, t) ==
    FilterSeq(provs, {p \in Providers :
                        /\ ~is_in_cooldown(cd, p, t)
                        /\ st[p] \in {AVAILABLE, ERROR}})

Success(p) == [success |-> TRUE, provider_name |-> p, error |-> NoError]
AllUnavailable ==
    [success |-> FALSE, provider_name |-> "none",
     error |-> [kind |-> "AllProvidersUnavailable", last |-> NoneVal]]
AllFailed(err) ==
    [success |-> FALSE, provider_name |-> "none",
     error |-> [kind |-> "AllProvidersFailed", last |-> err]]

\* the calls whose 429 signal from p is at most COOLDOWN_MINUTES old at t
RecentlyLimited(cs, p, t) ==
    {c \in CallIds : cs[c].rl_at[p] >= 0 /\ t <= cs[c].rl_at[p] + COOLDOWN_MINUTES}

\* AIRouter.generate_text / generate_json, the loop from candidate i on, up
\* to the first candidate whose HTTP request is awaited.  R = the router and
\* provider state with this call's frame.  A provider that is not AVAILABLE
\* answers at once (is_available is False), without suspending.
RECURSIVE try_candidates(_, _)
try_candidates(R, i) ==
    IF i > Len(R.call.available)
    THEN [R EXCEPT !.call.pc = "done", !.call.idx = 0,
                   !.call.result = AllFailed(R.call.last_error)]
    ELSE LET p == R.call.available[i]
             entered ==
                [R.call EXCEPT
                   !.invoked = Append(@, p),
                   !.cold = IF is_in_cooldown(R.cooldowns, p, R.now)
                            THEN @ \cup {p} ELSE @,
                   !.cold_ref = @ \cup {<<p, c>> : c \in RecentlyLimited(R.calls, p, R.now)}]
         IN  IF R.status[p] = AVAILABLE
             THEN [R EXCEPT !.call = [entered EXCEPT !.pc = "awaiting", !.idx = i]]
             ELSE LET err == IF R.last_error[p] # NoneVal THEN R.last_error[p]
                             ELSE "Provider unavailable"
                      cd == IF R.status[p] = RATE_LIMITED
                            THEN set_cooldown(R.cooldowns, p, R.now)
                            ELSE R.cooldowns
                      answered ==
                         [entered EXCEPT
                            !.last_error = err,
                            !.skipped = @ \cup {p},
                            !.responses = Append(@, Handed(p, "none",
                                            ProviderResponse(FALSE, Text(<<>>), err)))]
                  IN  try_candidates([R EXCEPT !.cooldowns = cd, !.call = answered],
                                     i + 1)

\* the loop has run up to an await or a return: its effects become visible
Commit(c, R) ==
    /\ status' = R.status
    /\ last_error' = R.last_error
    /\ cooldowns' = R.cooldowns
    /\ calls' = [R.calls EXCEPT ![c] = R.call]

\* variant: the empty candidate list is not told apart
no_candidates_unchecked(available) == FALSE

\* AIRouter.generate_text / generate_json: "if not available"
no_candidates(available) == available = <<>>

\* a coroutine enters AIRouter.generate_text (mode "text") or generate_json
\* (mode "json") and runs to its first await
StartCall(c, mode) ==
    /\ calls[c].pc \in {"idle", "done"}
    /\ LET cd == expire_cooldowns(cooldowns, providers, now)
           available == get_available_providers(providers, cooldowns, status, now)
           fresh == [IdleCall EXCEPT
                       !.mode = mode,
                       !.available = available,
                       !.thawed = {p \in Providers :
                                     /\ \E i \in 1..Len(providers) : providers[i] = p
                                     /\ cooldowns[p] # NoCooldown
                                     /\ ~is_in_cooldown(cooldowns, p, now)}]
           \* the frame of c is new: marks that point at the old one go
           others == [d \in CallIds |->
                        [calls[d] EXCEPT !.cold_ref = {x \in @ : x[2] # c}]]
       IN  IF no_candidates(available)
           THEN /\ calls' = [others EXCEPT ![c] = [fresh EXCEPT !.pc = "done",
                                                               !.result = AllUnavailable]]
                /\ cooldowns' = cd
                /\ UNCHANGED <<status, last_error>>
           ELSE Commit(c, try_candidates(
                           [status |-> status, last_error |-> last_error,
                            cooldowns |-> cd, now |-> now,
                            calls |-> [others EXCEPT ![c] = fresh],
                            call |-> fresh], 1))
    /\ UNCHANGED <<providers, now>>
    /\ UNCHANGED storeVars
    /\ UNCHANGED jobVars

\* the provider's HTTP exchange ends (GroqProvider.generate_text inside
\* "async with"): the client marks itself, then suspends closing the client.
\* body is the content of a 200 answer (Groq's may be null).
HttpResponse(c, outcome, body) ==
    /\ calls[c].pc = "awaiting"
    /\ outcome # "ok" => body = NoText
    /\ LET p == calls[c].available[calls[c].idx]
       IN  /\ body.is_none /\ outcome = "ok" => p = "Groq"
           /\ status' = [status EXCEPT ![p] =
                           CASE outcome = "ok" -> AVAILABLE
                             [] outcome = "rate_limit" -> RATE_LIMITED
                             [] outcome = "http_error" -> ERROR
                             [] OTHER -> @]
           /\ last_error' = [last_error EXCEPT ![p] =
                           CASE outcome = "ok" -> NoneVal
                             [] outcome = "rate_limit" -> ErrRateLimit
                             [] outcome = "http_error" -> ErrHttp
                             [] OTHER -> @]
    /\ calls' = [calls EXCEPT ![c].pc = "closing", ![c].outcome = outcome,
                              ![c].body = body, ![c].handed = NothingHanded]
    /\ UNCHANGED <<providers, cooldowns, now>>
    /\ UNCHANGED storeVars
    /\ UNCHANGED jobVars

\* variant: the error of the first failed candidate is kept
after_failure_first_error(R, p, err) ==
    LET cd == IF R.status[p] = RATE_LIMITED
              THEN set_cooldown(R.cooldowns, p, R.now) ELSE R.cooldowns
    IN  try_candidates([R EXCEPT !.cooldowns = cd,
                                 !.call.last_error = IF @ = NoneVal THEN err ELSE @],
                       R.call.idx + 1)

\* AIRouter.generate_text after "await provider.generate_text" returned a
\* response that is not a success: the cooldown check on the provider's
\* status as it is now, then the next candidates
after_failure(R, p, err) ==
    LET cd == IF R.status[p] = RATE_LIMITED
              THEN set_cooldown(R.cooldowns, p, R.now) ELSE R.cooldowns
    IN  try_candidates([R EXCEPT !.cooldowns = cd, !.call.last_error = err],
                       R.call.idx + 1)

\* AIRouter.generate_text, "except Exception as e": last_error = str(e), continue
after_exception(R, err) ==
    try_candidates([R EXCEPT !.call.last_error = err], R.call.idx + 1)

\* variant: a success response does not end the loop
after_response_no_return(R, p, response) ==
    IF response.raised THEN after_exception(R, response.error)
    ELSE IF response.success
    THEN try_candidates([R EXCEPT !.call.result = Success(p),
                                  !.call.content = response.content],
                        R.call.idx + 1)
    ELSE after_failure(R, p, response.error)

\* AIRouter.generate_text from the return of provider.generate_text on
after_response(R, p, response) ==
    IF response.raised THEN after_exception(R, response.error)
    ELSE IF response.success
    THEN [R EXCEPT !.call.pc = "done", !.call.idx = 0, !.call.result = Success(p),
                   !.call.content = response.content]
    ELSE after_failure(R, p, response.error)

\* the provider call returns to the router (the client is closed; a timeout
\* is caught and marked only now), and the router goes on
ReturnToRouter(c) ==
    /\ calls[c].pc = "closing"
    /\ LET p == calls[c].available[calls[c].idx]
           o == calls[c].outcome
           st == IF o = "timeout" THEN [status EXCEPT ![p] = ERROR] ELSE status
           le == IF o = "timeout" THEN [last_error EXCEPT ![p] = ErrTimeout]
                 ELSE last_error
           response == provider_response(calls[c].mode, o, calls[c].body)
           noted == [calls[c] EXCEPT
                       !.body = NoText,
                       !.got_ok = IF response.success THEN @ \cup {p} ELSE @,
                       !.responses = Append(@, Handed(p, o, response)),
                       !.handed = IF response.success
                                  THEN InFull(p, calls[c].body, response) ELSE @,
                       !.rl_at = IF o = "rate_limit" THEN [@ EXCEPT ![p] = now] ELSE @]
       IN  Commit(c, after_response(
                        [status |-> st, last_error |-> le, cooldowns |-> cooldowns,
                         now |-> now, calls |-> [calls EXCEPT ![c] = noted],
                         call |-> noted], p, response))
    /\ UNCHANGED <<providers, now>>
    /\ UNCHANGED storeVars
    /\ UNCHANGED jobVars

Tick ==
    /\ now < MaxTime
    /\ now' = now + 1
    /\ UNCHANGED <<status, last_error, providers, cooldowns, calls>>
    /\ UNCHANGED storeVars
    /\ UNCHANGED jobVars

\* AIRouter.__init__ / _initialize_providers: a provider without API key is
\* UNAVAILABLE and is left out of the list
RouterInit ==
    \E keys \in SUBSET Providers :
        /\ status = [p \in Providers |-> IF p \in keys THEN AVAILABLE ELSE UNAVAILABLE]
        /\ last_error = [p \in Providers |-> IF p \in keys THEN NoneVal ELSE "API key not configured"]
        /\ providers = FilterSeq(Priority, keys)
        /\ cooldowns = [p \in Providers |-> NoCooldown]
        /\ now = 0
        /\ calls = [c \in CallIds |-> IdleCall]

RouterNext ==
    \/ \E c \in CallIds : StartCall(c, "text")
    \/ \E c \in CallIds, o \in HttpOutcomes :
          HttpResponse(c, o, IF o = "ok" THEN Text(<<JUNK>>) ELSE NoText)
    \/ \E c \in CallIds : ReturnToRouter(c)
    \/ Tick

\* the router runs beside a store nobody writes to
RouterStart == StoreInit /\ JobInit /\ RouterInit

RouterSpec == RouterStart /\ [][RouterNext]_vars

\* JSON mode: one request handler calls AIRouter.generate_json
JsonNext ==
    \/ StartCall("request", "json")
    \/ \E o \in HttpOutcomes,
          b \in {Text(t) : t \in SeqsUpTo({FENCE, LANG, WS, DOC, JUNK}, MaxBody)}
                    \cup {NoText} :
          HttpResponse("request", o, b)
    \/ ReturnToRouter("request")

JsonSpec == RouterStart /\ [][JsonNext]_vars

\* the store specification leaves the router as constructed with both keys
Init ==
    /\ StoreInit
    /\ JobInit
    /\ status = [p \in Providers |-> AVAILABLE]
    /\ last_error = [p \in Providers |-> NoneVal]
    /\ providers = Priority
    /\ cooldowns = [p \in Providers |-> NoCooldown]
    /\ now = 0
    /\ calls = [c \in CallIds |-> IdleCall]

Next ==
    \/ \E bodies \in Outlines : GenerateOk(bodies)
    \/ GenerateFail
    \/ \E n \in 0..MaxSlides + 1, i \in Instructions, ok \in BOOLEAN, d \in RegenData :
          UpdateSlide(n, i, ok, d)
    \/ \E n \in 0..MaxSlides + 1, v \in -1..Cardinality(versionsTbl) : RollbackSlide(n, v)

Spec == Init /\ [][Next]_vars

\* requests on the session in use (routes look the session up first and
\* answer 404 when it is gone)

\* sessions that are filled, edited, deleted and followed by a new one
DeleteNext ==
    \/ \E bodies \in Outlines : SessionExists /\ GenerateOk(bodies)
    \/ \E n \in 1..MaxSlides, i \in Instructions, d \in RegenData :
          SessionExists /\ UpdateSlide(n, i, TRUE, d)
    \/ DeleteSession
    \/ CreateSession

DeleteSpec == Init /\ [][DeleteNext]_vars

\* deletions and lookups of the session in flight together; generations
\* and new sessions between them
DeleteRaceNext ==
    \/ \E bodies \in Outlines \ {<<>>} :
          InFlight = {} /\ SessionExists /\ GenerateOk(bodies)
    \/ InFlight = {} /\ CreateSession
    \/ \E h \in HandlerIds : DeleteBegin(h)
    \/ \E h \in HandlerIds : DeleteCommit(h)
    \/ \E h \in HandlerIds : GetMiss(h)
    \/ \E h \in HandlerIds : GetLoad(h)

DeleteRaceSpec == Init /\ [][DeleteRaceNext]_vars

\* generations from the router's answers, one after the other
OutlineNext == \E answer \in OutlineAnswers : GenerateFromAnswer(answer)

OutlineSpec == Init /\ [][OutlineNext]_vars

\* the job engine: submissions, the consumer loop and the generation task
JobNext ==
    \/ CreateJob
    \/ Dequeue
    \/ TaskGetSession
    \/ \E bodies \in Outlines : TaskOutline(bodies)
    \/ TaskBuild
    \/ TaskReturn
    \/ \E inner \in InnerErrors : TaskRaise(inner)

JobSpec == Init /\ [][JobNext]_vars

\* the client of the end-to-end scenario polls until no job is pending or
\* at work before it sends its next request
JobsSettled == consumer.pc = "waiting" /\ queue = <<>>


\* generation jobs that run to completion, then slide updates and rollbacks
\* on the one session (tasks that raise are the matter of JobSpec)
EndToEndNext ==
    \/ JobsSettled /\ CreateJob
    \/ Dequeue
    \/ TaskGetSession
    \/ \E bodies \in Outlines : TaskOutline(bodies)
    \/ TaskBuild
    \/ TaskReturn
    \/ \E n \in 1..MaxSlides, i \in Instructions, ok \in BOOLEAN, d \in RegenData :
          JobsSettled /\ UpdateSlide(n, i, ok, d)
    \/ \E n \in 1..MaxSlides, v \in 0..Cardinality(versionsTbl) :
          JobsSettled /\ RollbackSlide(n, v)

EndToEndSpec == Init /\ [][EndToEndNext]_vars

\* a slide update request handled between two awaits of the running task
\* (or while no task runs); the tables are bounded, and room is left for the
\* rows the running task has still to insert
ConcurrentUpdate(n, instruction, data) ==
    /\ LET versions_left ==
               IF consumer.task = "build" THEN Len(consumer.slides)
               ELSE IF consumer.task = "create"
               THEN Len(consumer.slides) - Cardinality(slidesTbl)
               ELSE 0
           chat_left == IF consumer.task \in {"build", "create", "chat"} THEN 2 ELSE 0
       IN  /\ Cardinality(versionsTbl) + 1 + versions_left <= MaxVersionRows
           /\ Len(chatTbl) + 2 + chat_left <= MaxChat
    /\ UpdateSlide(n, instruction, TRUE, data)

\* the generation task await by await next to slide update requests on the
\* same session; a slide-history or preview request reads the cached
\* session of whatever state it is scheduled in
ConcurrentNext ==
    \/ CreateJob
    \/ Dequeue
    \/ TaskGetSession
    \/ \E bodies \in Outlines : TaskOutline(bodies)
    \/ BuildDelete
    \/ BuildCreateSlide
    \/ BuildRefresh
    \/ BuildChat
    \/ TaskReturn
    \/ \E n \in 1..MaxSlides, i \in Instructions :
          ConcurrentUpdate(n, i, [title |-> "T3"])

ConcurrentSpec == Init /\ [][ConcurrentNext]_vars

\* slide updates from the router's answers: usable objects, an object
\* with "title": null, a JSON array, a failure
RegenNext ==
    \/ \E bodies \in Outlines : GenerateOk(bodies)
    \/ \E n \in 1..MaxSlides, i \in Instructions,
          d \in RegenData \cup {[title |-> NoneVal, content |-> <<"y">>]} :
          UpdateFromAnswer(n, i, "object", d)
    \/ \E n \in 1..MaxSlides, i \in Instructions,
          answer \in {"router_failure", "not_a_dict"} :
          UpdateFromAnswer(n, i, answer, NoData)

RegenSpec == Init /\ [][RegenNext]_vars

\* slide edits of two requests, await by await, on a generated session
EditNext ==
    \/ \E bodies \in Outlines \ {<<>>} : slidesTbl = {} /\ GenerateOk(bodies)
    \/ \E h \in HandlerIds, n \in 1..MaxSlides :
          EditGetSlide(h, "update", n, MkBody("T3", <<"y">>, "n3"), 0)
    \/ \E h \in HandlerIds, n \in 1..MaxSlides, v \in 0..MaxVersionRows :
          EditGetSlide(h, "rollback", n, IdleHandler.body, v)
    \/ \E h \in HandlerIds : EditCommit(h)
    \/ \E h \in HandlerIds : EditFinish(h)

EditSpec == Init /\ [][EditNext]_vars

\* the job engine with its two ways of ending the consumer loop
ShutdownNext ==
    \/ CreateJob
    \/ Dequeue
    \/ TaskGetSession
    \/ \E bodies \in Outlines : TaskOutline(bodies)
    \/ TaskBuild
    \/ TaskReturn
    \/ \E inner \in InnerErrors : TaskRaise(inner)
    \/ Stop
    \/ LoopTimeout
    \/ Cancel

ShutdownSpec == Init /\ [][ShutdownNext]_vars

\* the job engine with stop() and without cancellation; one outline and
\* one kind of exception
StopNext ==
    \/ CreateJob
    \/ Dequeue
    \/ TaskGetSession
    \/ \E bodies \in {b \in Outlines : Len(b) = 1} : TaskOutline(bodies)
    \/ TaskBuild
    \/ TaskReturn
    \/ TaskRaise(<<>>)
    \/ Stop
    \/ LoopTimeout

\* the event loop runs the consumer whenever it can go on, every task ends,
\* and the bounded wait for an item (one second) times out
StopFairSpec ==
    /\ Init
    /\ [][StopNext]_vars
    /\ WF_vars(Dequeue)
    /\ WF_vars(TaskReturn \/ TaskRaise(<<>>))
    /\ WF_vars(LoopTimeout)

\* the event loop runs the consumer whenever it can go on, and every task
\* ends
JobFairSpec ==
    /\ Init
    /\ [][JobNext]_vars
    /\ WF_vars(Dequeue)
    /\ WF_vars(TaskReturn \/ \E inner \in InnerErrors : TaskRaise(inner))

(***************************************************************************)
(* Properties of the versioned slide store                                  *)
(***************************************************************************)
SlideRow(st, n) == CHOOSE s \in SlidesNumbered(st, n) : TRUE
VersionsOfNumber(st, vt, n) == SlideVersionsOf(vt, SlideRow(st, n).id)
CachedSlides(session, n) ==
    {session.slides[i] : i \in {j \in 1..Len(session.slides) :
                                  session.slides[j].slide_number = n}}
StoreUnchanged ==
    /\ slidesTbl = last.pre.slidesTbl
    /\ versionsTbl = last.pre.versionsTbl
    /\ Len(chatTbl) = last.pre.chatLen
    /\ sessions = last.pre.sessions

\* C1: for every slide, in every reachable state, 0 <= current_version <
\* number of versions (in the tables and in the cached session), and an
\* update or a rollback never lowers the number of versions of any slide.
C1_PointerInRange ==
    /\ \A s \in slidesTbl :
          /\ 0 <= s.current_version
          /\ s.current_version < Len(SlideVersionsOf(versionsTbl, s.id))
    /\ \A i \in 1..Len(sessions.slides) :
          /\ 0 <= sessions.slides[i].current_version
          /\ sessions.slides[i].current_version < Len(sessions.slides[i].versions)
    /\ last.op \in {"update", "rollback"} =>
          \A s \in last.pre.slidesTbl :
             /\ \E s2 \in slidesTbl : s2.id = s.id
             /\ Len(SlideVersionsOf(versionsTbl, s.id))
                   >= Len(SlideVersionsOf(last.pre.versionsTbl, s.id))

C1_Witness ==
    /\ last.op = "rollback" /\ last.result = "ok" /\ last.prev.op = "update"
    /\ \E s \in slidesTbl :
          /\ Len(SlideVersionsOf(versionsTbl, s.id)) >= 2
          /\ s.current_version < Len(SlideVersionsOf(versionsTbl, s.id)) - 1

\* C2: every successful appendVersion raises the slide's version count by
\* exactly one and leaves the current index on the entry it appended.
C2_AppendAdvancesPointer ==
    (last.op = "update" /\ last.result = "ok") =>
        LET n == last.slide_number
            s == SlideRow(slidesTbl, n)
            before == VersionsOfNumber(last.pre.slidesTbl, last.pre.versionsTbl, n)
            after == SlideVersionsOf(versionsTbl, s.id)
        IN  /\ s.id = SlideRow(last.pre.slidesTbl, n).id
            /\ Len(after) = Len(before) + 1
            /\ PyInRange(after, s.current_version)
            /\ PyIndex(after, s.current_version) \notin last.pre.versionsTbl
            /\ PyIndex(after, s.current_version).instruction = last.instruction
            /\ PyIndex(after, s.current_version).body = s.body
            /\ \A c \in CachedSlides(sessions, n) :
                  /\ c.current_version = s.current_version
                  /\ Len(c.versions) = Len(after)

C2_Witness ==
    /\ last.op = "update" /\ last.result = "ok" /\ last.prev.op = "update"
    /\ last.prev.slide_number = last.slide_number
    /\ Len(VersionsOfNumber(slidesTbl, versionsTbl, last.slide_number)) >= 3

\* C3: an appendVersion that follows a rollback of the same slide to an
\* earlier index puts the new version at index = number of versions before
\* (at the end), and every version recorded before keeps index and content.
C3_AppendAfterRollbackAtEnd ==
    (/\ last.op = "update" /\ last.result = "ok"
     /\ last.prev.op = "rollback" /\ last.prev.slide_number = last.slide_number) =>
        LET n == last.slide_number
            s == SlideRow(slidesTbl, n)
            before == VersionsOfNumber(last.pre.slidesTbl, last.pre.versionsTbl, n)
            after == SlideVersionsOf(versionsTbl, s.id)
        IN  /\ s.current_version = Len(before)
            /\ Len(after) = Len(before) + 1
            /\ after[Len(before) + 1] \notin last.pre.versionsTbl
            /\ \A i \in 1..Len(before) : after[i] = before[i]
            /\ \A c \in CachedSlides(sessions, n) :
                  \A i \in 1..Len(before) :
                     c.versions[i] =
                        (CHOOSE p \in CachedSlides(last.pre.sessions, n) : TRUE).versions[i]

C3_Witness ==
    /\ last.op = "update" /\ last.result = "ok"
    /\ last.prev.op = "rollback" /\ last.prev.slide_number = last.slide_number
    /\ LET pres == SlideRow(last.pre.slidesTbl, last.slide_number)
       IN  pres.current_version
              < Len(SlideVersionsOf(last.pre.versionsTbl, pres.id)) - 1

\* C4: a successful rollback to index i changes nothing but that slide's
\* pointer and displayed content: no version row is added, removed or
\* changed, the current view is the content stored at index i, and every
\* index that existed before is still accepted by a later rollback.
C4_RollbackMovesPointerOnly ==
    /\ last.op \in {"update", "rollback"} => last.pre.versionsTbl \subseteq versionsTbl
    /\ (last.op = "rollback" /\ last.result = "ok") =>
        LET n == last.slide_number
            i == last.version_index
            s == SlideRow(slidesTbl, n)
            olds == SlideRow(last.pre.slidesTbl, n)
            before == SlideVersionsOf(last.pre.versionsTbl, olds.id)
        IN  /\ versionsTbl = last.pre.versionsTbl
            /\ slidesTbl \ {s} = last.pre.slidesTbl \ {olds}
            /\ s = [olds EXCEPT !.current_version = i, !.body = before[i + 1].body]
            /\ \A c \in CachedSlides(sessions, n) :
                  /\ c.current_version = i
                  /\ Len(c.versions) = Len(before)
                  /\ PyIndex(c.versions, c.current_version).body = before[i + 1].body
                  /\ PyIndex(c.versions, c.current_version).instruction
                        = before[i + 1].instruction
            /\ \A j \in 0..Len(before) - 1 : rollback_accepts(versionsTbl, s, j)

\* a rollback forward again, to an index above the one rolled back to
C4_Witness ==
    /\ last.op = "rollback" /\ last.result = "ok"
    /\ last.prev.op = "rollback" /\ last.prev.slide_number = last.slide_number
    /\ last.version_index
          > SlideRow(last.pre.slidesTbl, last.slide_number).current_version
    /\ SlideRow(slidesTbl, last.slide_number).body
          # SlideRow(last.pre.slidesTbl, last.slide_number).body

\* C5: a rollback addressed to a slide number that is not in the session, or
\* to a version index outside [0, number of versions), fails (returns None)
\* and leaves pointer, version rows, chat log and cached session unchanged.
C5_RollbackRejectsWithoutEffect ==
    (/\ last.op = "rollback"
     /\ \/ SlidesNumbered(last.pre.slidesTbl, last.slide_number) = {}
        \/ last.version_index < 0
        \/ last.version_index >=
              Len(VersionsOfNumber(last.pre.slidesTbl, last.pre.versionsTbl,
                                   last.slide_number))) =>
        /\ last.result = "None"
        /\ StoreUnchanged

C5_Witness ==
    /\ last.op = "rollback" /\ last.result = "None"
    /\ SlidesNumbered(slidesTbl, last.slide_number) # {}
    /\ last.version_index
          = Len(VersionsOfNumber(slidesTbl, versionsTbl, last.slide_number))
    /\ last.version_index >= 2

\* C6: a slide update addressed to a slide number outside 1..number of
\* slides of the session fails (ValueError "Slide not found") and leaves the
\* session unchanged: no version row, no pointer move, no chat entry.
C6_UpdateOutOfRangeWithoutEffect ==
    (/\ last.op = "update"
     /\ ~(1 <= last.slide_number
          /\ last.slide_number <= Len(last.pre.sessions.slides))) =>
        /\ last.result = "ValueError"
        /\ StoreUnchanged

C6_Witness ==
    /\ last.op = "update" /\ last.result = "ValueError"
    /\ Len(sessions.slides) >= 1
    /\ last.slide_number = Len(sessions.slides) + 1

\* C7: after a generation has replaced the session's slides, the session
\* holds exactly the generated slides, numbered 1..n in order, each with
\* exactly one version (index 0, "Initial generation") and pointer 0.
C7_GenerationStartsFreshHistories ==
    (last.op = "generate" /\ last.result = "ok") =>
        /\ Len(sessions.slides) = Len(last.bodies)
        /\ \A i \in 1..Len(sessions.slides) :
              /\ sessions.slides[i].slide_number = i
              /\ sessions.slides[i].current_version = 0
              /\ sessions.slides[i].versions =
                    <<[version |-> 0, body |-> last.bodies[i],
                       instruction |-> INITIAL_INSTRUCTION]>>

(***************************************************************************)
(* Properties of the provider router                                        *)
(***************************************************************************)
\* C8: with providers [Groq, Gemini], when Groq answers a call with the
\* rate-limit signal and Gemini then succeeds, the call returns Gemini's
\* result and no router call invokes Groq within COOLDOWN_MINUTES of that
\* signal.
C8_RateLimitedProviderSkipped ==
    \A c \in CallIds :
        (/\ providers = Priority
         /\ calls[c].pc = "done"
         /\ calls[c].invoked = <<"Groq", "Gemini">>
         /\ calls[c].rl_at["Groq"] >= 0
         /\ calls[c].outcome = "ok") =>
            /\ calls[c].result = Success("Gemini")
            /\ \A d \in CallIds : <<"Groq", c>> \notin calls[d].cold_ref

\* C9: in every reachable state, also with two router calls in flight, no
\* call has invoked a provider whose cooldown entry had not yet expired.
C9_NoDispatchUnderCooldown ==
    \A c \in CallIds : calls[c].cold = {}

\* C10: within one call the candidates are invoked in priority order (Groq
\* before Gemini, none twice), and once a candidate has answered with
\* success the call is over with that result and nothing else is invoked.
C10_PriorityOrderFirstSuccessWins ==
    \A c \in CallIds :
        /\ \A i, j \in 1..Len(calls[c].invoked) :
              i < j =>
                 \E a, b \in 1..Len(Priority) :
                    /\ a < b
                    /\ Priority[a] = calls[c].invoked[i]
                    /\ Priority[b] = calls[c].invoked[j]
        /\ \A p \in calls[c].got_ok :
              /\ calls[c].pc = "done"
              /\ calls[c].result = Success(p)
              /\ calls[c].invoked[Len(calls[c].invoked)] = p

C10_Witness ==
    \E c \in CallIds :
        /\ calls[c].pc = "done"
        /\ calls[c].available = <<"Groq", "Gemini">>
        /\ calls[c].invoked = <<"Groq">>
        /\ calls[c].result = Success("Groq")

\* C11: when every candidate of a call has failed, by a failure response or
\* by an exception, the call is over with a failure of provider "none" of
\* kind AllProvidersFailed that carries the error message of the candidate
\* tried last; every candidate of the list was tried.
C11_AllFailedCarriesLastError ==
    \A c \in CallIds :
        (calls[c].pc = "done" /\ ~calls[c].result.success /\ calls[c].invoked # <<>>) =>
            /\ calls[c].result.provider_name = "none"
            /\ calls[c].result.error.kind = "AllProvidersFailed"
            /\ calls[c].invoked = calls[c].available
            /\ Len(calls[c].responses) = Len(calls[c].invoked)
            /\ \A k \in 1..Len(calls[c].responses) : ~calls[c].responses[k].success
            /\ calls[c].result.error.last
                  = calls[c].responses[Len(calls[c].responses)].error

\* Groq raised (null content), then Gemini answered with a failure response
C11_Witness ==
    /\ calls["request"].pc = "done"
    /\ calls["request"].result.error.kind = "AllProvidersFailed"
    /\ Len(calls["request"].responses) = 2
    /\ calls["request"].responses[1].raised
    /\ calls["request"].responses[2].error = ErrHttp

\* C12: a call whose candidate list is empty ends with AllProvidersUnavailable
\* and has invoked no provider; AllProvidersFailed is the result only of
\* calls that invoked at least one candidate, so the two are told apart.
C12_NoCandidatesIsUnavailable ==
    \A c \in CallIds :
        calls[c].pc = "done" =>
            /\ calls[c].available = <<>> =>
                  /\ calls[c].result = AllUnavailable
                  /\ calls[c].invoked = <<>>
            /\ calls[c].result.error.kind = "AllProvidersFailed" =>
                  calls[c].invoked # <<>>
            /\ calls[c].result.error.kind = "AllProvidersUnavailable" =>
                  calls[c].available = <<>>

\* both providers are configured and both are excluded
C12_Witness ==
    \E c \in CallIds :
        /\ providers = Priority
        /\ calls[c].pc = "done"
        /\ calls[c].result = AllUnavailable
        /\ is_in_cooldown(cooldowns, "Groq", now)

\* C13: in JSON mode, a 200 answer whose content is a JSON document wrapped
\* in a fenced code block (opened by the marker alone or by the marker with
\* the json tag) is handed back as success with the document alone as
\* content, parsable, and is the result of the router call; a 200 answer in
\* which no clean-up can find a JSON document (it holds other text, no
\* document or more than one) is handed back as a failure, "Invalid JSON
\* response", although the exchange itself succeeded; no router call
\* succeeds with content that does not parse.
C13_FencedJsonAccepted ==
    [][LET Blank == {<<>>, <<WS>>}
           Fenced == {a \o open \o b \o <<DOC>> \o c \o <<FENCE>> \o d :
                         a \in Blank, b \in Blank, c \in Blank, d \in Blank,
                         open \in {<<FENCE>>, <<FENCE, LANG>>}}
           Meaningful(x) == x \notin {WS, FENCE, LANG}
           f == calls["request"]
           g == calls'["request"]
       IN  /\ (f.pc = "closing" /\ f.outcome = "ok" /\ ~f.body.is_none) =>
                LET p == f.available[f.idx]
                    r == g.responses[Len(f.responses) + 1]
                IN  /\ r.provider = p /\ r.outcome = "ok"
                    /\ f.body.text \in Fenced =>
                          /\ r.success
                          /\ g.pc = "done"
                          /\ g.result = Success(p)
                          /\ g.content = Text(<<DOC>>)
                          /\ g.handed.body = f.body
                    /\ SelectSeq(f.body.text, Meaningful) # <<DOC>> =>
                          /\ status'[p] = AVAILABLE
                          /\ ~r.raised
                          /\ ~r.success
                          /\ r.error = ErrInvalidJson
           /\ g.result.success =>
                /\ ~g.content.is_none /\ json_loads_ok(g.content.text)
                /\ g.handed.provider = g.result.provider_name
                /\ g.handed.response.content = g.content
                /\ ~g.handed.body.is_none
                /\ SelectSeq(g.handed.body.text, Meaningful) = <<DOC>>]_vars

\* Groq's answer did not parse, Gemini's fenced answer is the result
C13_Witness ==
    /\ calls["request"].pc = "done"
    /\ Len(calls["request"].responses) = 2
    /\ calls["request"].responses[1].outcome = "ok"
    /\ calls["request"].responses[1].error = ErrInvalidJson
    /\ calls["request"].handed.body = Text(<<FENCE, LANG, DOC, FENCE>>)
    /\ calls["request"].result = Success("Gemini")

\* C14: in JSON mode, once a candidate's exchange succeeded and its content
\* failed to parse, the router call is over and has failed: no candidate is
\* tried after it.
C14_InvalidFormatIsTerminal ==
    LET f == calls["request"]
    IN  \A k \in 1..Len(f.responses) :
            (f.responses[k].outcome = "ok" /\ f.responses[k].error = ErrInvalidJson) =>
                /\ k = Len(f.responses)
                /\ f.invoked[Len(f.invoked)] = f.responses[k].provider
                /\ f.pc = "done"
                /\ ~f.result.success

\* C15: a provider whose cooldown entry had expired when a call started is
\* a candidate of that call.
C15_CooldownExpiryRestoresCandidate ==
    \A c \in CallIds :
        calls[c].pc # "idle" =>
            \A p \in calls[c].thawed :
                \E i \in 1..Len(calls[c].available) : calls[c].available[i] = p

\* C16: every call of a configured client asks its backend, also after an
\* errored or rate-limited outcome, so that a backend that answers with
\* success is heard and the health returns to Available: no call of a
\* client is answered from the stored status alone.
C16_HealthFollowsLatestOutcome ==
    \A c \in CallIds : calls[c].skipped = {}

(***************************************************************************)
(* Properties of the job engine                                             *)
(***************************************************************************)
\* C17: a job that is still in the queue is Pending with progress 0; a job
\* whose task returned is Completed with progress 100; a job whose task
\* raised is Failed with a non-empty error text; a job the loop is done with
\* is one of the two.
C17_PendingThenCompletedOrFailed ==
    /\ \A k \in 1..Len(queue) :
          /\ jobs[queue[k]].status = PENDING
          /\ jobs[queue[k]].progress = 0
    /\ \A id \in 1..Len(jobs) :
          /\ jobs[id].outcome = "returned" =>
                jobs[id].status = COMPLETED /\ jobs[id].progress = 100
          /\ jobs[id].outcome = "raised" =>
                /\ jobs[id].status = FAILED
                /\ ~jobs[id].error.is_none
                /\ Len(jobs[id].error.text) > 0
          /\ ((\A k \in 1..Len(queue) : queue[k] # id) /\ consumer.job # id) =>
                jobs[id].outcome \in {"returned", "raised"}

\* one job completed, one failed on an exception without message, one queued
C17_Witness ==
    /\ queue # <<>>
    /\ \E id \in 1..Len(jobs) : jobs[id].status = COMPLETED
    /\ \E id \in 1..Len(jobs) :
          /\ jobs[id].status = FAILED
          /\ Len(jobs[id].error.text) = 1

\* C18: a job's status changes only from Pending to Processing and from
\* Processing to Completed or Failed; no job is dropped.
C18_StatusMonotonic ==
    [][/\ Len(jobs') >= Len(jobs)
       /\ \A id \in 1..Len(jobs) :
             jobs'[id].status # jobs[id].status =>
                \/ jobs[id].status = PENDING /\ jobs'[id].status = PROCESSING
                \/ /\ jobs[id].status = PROCESSING
                   /\ jobs'[id].status \in {COMPLETED, FAILED}]_vars

C18_Witness ==
    /\ Len(jobs) = MaxJobs
    /\ jobs[1].status = FAILED
    /\ jobs[2].status = COMPLETED
    /\ jobs[3].status = PROCESSING

\* C19: at most one job is Processing, and it is the job whose task the
\* consumer runs.
C19_OneTaskAtATime ==
    /\ Cardinality({id \in 1..Len(jobs) : jobs[id].status = PROCESSING}) <= 1
    /\ \A id \in 1..Len(jobs) :
          jobs[id].status = PROCESSING <=> (consumer.pc = "executing" /\ consumer.job = id)

\* two jobs wait while the first one's task is at work
C19_Witness ==
    /\ Len(queue) >= 2
    /\ consumer.pc = "executing"
    /\ jobs[consumer.job].progress = 70

\* C20: a task that raised leaves the consumer loop running and its job
\* Failed with the error text set, and a job queued behind a failed job is
\* eventually executed to Completed or Failed.
C20_TaskFailureDoesNotStopLoop ==
    /\ [](/\ consumer.pc \in {"waiting", "executing"}
          /\ \A id \in 1..Len(jobs) :
                jobs[id].outcome = "raised" =>
                   jobs[id].status = FAILED /\ ~jobs[id].error.is_none)
    /\ \A i \in 1..MaxJobs :
          (/\ \E k \in 1..Len(queue) : queue[k] = i
           /\ \E j \in 1..(i - 1) : jobs[j].status = FAILED)
          ~> (i <= Len(jobs) /\ jobs[i].status \in {COMPLETED, FAILED})

C20_Witness ==
    \E i \in 1..Len(jobs), j \in 1..Len(jobs) :
        /\ j < i
        /\ jobs[j].status = FAILED
        /\ jobs[i].status = COMPLETED

\* C21: the step that marks a job Failed leaves its progress as it was, which
\* is the value the task reported last (0 when it had reported nothing yet,
\* never 100), and sets the error text; a Failed job's record does not change
\* afterwards, so a poll reads that progress together with the error.
C21_FailedKeepsLastProgress ==
    [][\A id \in 1..Len(jobs) :
          /\ (jobs[id].status # FAILED /\ jobs'[id].status = FAILED) =>
                LET reported == CASE consumer.task = "get_session" -> 0
                                  [] consumer.task = "outline" -> 10
                                  [] consumer.task = "build" -> 70
                                  [] consumer.task = "finalize" -> 90
                IN  /\ consumer.job = id
                    /\ jobs[id].status = PROCESSING
                    /\ jobs'[id].progress = jobs[id].progress
                    /\ jobs'[id].progress = reported
                    /\ ~jobs'[id].error.is_none
          /\ jobs[id].status = FAILED => jobs'[id] = jobs[id]]_vars

\* a task that raised after "Building presentation..." was reported
C21_Witness ==
    \E id \in 1..Len(jobs) :
        /\ jobs[id].status = FAILED
        /\ jobs[id].progress = 70
        /\ ~jobs[id].error.is_none

\* C22: a task that is running ends only by its own completion or failure:
\* whenever the consumer leaves a task, the task's job is Completed or Failed
\* (also when JobManager.stop or the shutdown of main.lifespan came while it
\* ran), and stop() alone never moves the consumer out of a task.
C22_RunningTaskNotInterrupted ==
    [][/\ (consumer.pc = "executing" /\ consumer'.pc # "executing") =>
              jobs'[consumer.job].status \in {COMPLETED, FAILED}
       /\ (consumer.pc = "executing" /\ consumer.running /\ ~consumer'.running) =>
              /\ consumer'.pc = "executing"
              /\ consumer'.task = consumer.task
              /\ jobs' = jobs]_vars

\* C23: the cancellation of the consumer loop changes no job record and no
\* queue entry; once the loop is cancelled the job that was in flight is
\* Processing with the progress it had and neither Completed nor Failed,
\* and every queued job is Pending with progress 0.
C23_CancelLeavesJobState ==
    [][/\ (consumer.pc # "cancelled" /\ consumer'.pc = "cancelled") =>
              jobs' = jobs /\ queue' = queue
       /\ consumer'.pc = "cancelled" =>
              /\ consumer'.job # 0 =>
                    /\ jobs'[consumer'.job].status = PROCESSING
                    /\ jobs'[consumer'.job].outcome = "none"
                    /\ jobs'[consumer'.job].error.is_none
                    /\ jobs'[consumer'.job].progress = jobs[consumer.job].progress
              /\ \A k \in 1..Len(queue') :
                    /\ jobs'[queue'[k]].status = PENDING
                    /\ jobs'[queue'[k]].progress = 0]_vars

\* the loop was cancelled while a task was at work and another job waited
C23_Witness ==
    /\ consumer.pc = "cancelled"
    /\ consumer.job # 0
    /\ jobs[consumer.job].status = PROCESSING
    /\ jobs[consumer.job].progress = 70
    /\ queue # <<>>

\* C24: after a successful update of slide n, the version appended to the
\* slide's history carries the instruction text as given, and each of title,
\* bullets and speaker notes is the value of the answer's JSON object where
\* the object has the key and otherwise the value of the version the
\* slide's pointer named before the update (also when a rollback had moved
\* the pointer off the newest version); the slide shows that version.
C24_RegenerateDefaultsFromCurrent ==
    (last.op = "update" /\ last.result = "ok") =>
        LET n == last.slide_number
            pre_slide == SlideRow(last.pre.slidesTbl, n)
            before == VersionsOfNumber(last.pre.slidesTbl, last.pre.versionsTbl, n)
            current == before[pre_slide.current_version + 1].body
            s == SlideRow(slidesTbl, n)
            after == SlideVersionsOf(versionsTbl, s.id)
            new == after[Len(before) + 1]
            Field(key) == IF key \in DOMAIN last.data THEN last.data[key]
                          ELSE current[key]
        IN  /\ Len(after) = Len(before) + 1
            /\ new.instruction = last.instruction
            /\ \A key \in {"title", "content", "speaker_notes"} :
                  new.body[key] = Field(key)
            /\ s.body = new.body
            /\ \A c \in CachedSlides(sessions, n) :
                  /\ c.versions[Len(before) + 1].body = new.body
                  /\ c.versions[Len(before) + 1].instruction = last.instruction

\* the answer left out the bullets and the notes, after a rollback to a
\* version whose content differs from the newest one's
C24_Witness ==
    /\ last.op = "update" /\ last.result = "ok"
    /\ last.prev.op = "rollback" /\ last.prev.slide_number = last.slide_number
    /\ DOMAIN last.data = {"title"}
    /\ LET pre_slide == SlideRow(last.pre.slidesTbl, last.slide_number)
           before == VersionsOfNumber(last.pre.slidesTbl, last.pre.versionsTbl,
                                      last.slide_number)
       IN  /\ pre_slide.current_version < Len(before) - 1
           /\ before[pre_slide.current_version + 1].body.content
                 # before[Len(before)].body.content

\* C25: a generation request whose router call succeeded with a JSON object
\* holding a "slides" list (or no "slides" key) does not fail, whatever the
\* entries of the list are: it yields one slide per entry, the title
\* "Slide N" (N the position from 1) where the entry has none and no
\* bullets where it has none; it fails when the router failed or the
\* answer as a whole has the wrong shape.
C25_MalformedEntryTolerated ==
    last.op = "generate" =>
        LET a == last.answer
        IN  /\ a.kind \in {"router_failure", "not_a_dict", "slides_null"} =>
                  last.result = GenFailed
            /\ a.kind \in {"slides", "no_slides_key"} =>
                  /\ last.result = "ok"
                  /\ Len(last.bodies) = Len(a.slides)
                  /\ \A i \in 1..Len(a.slides) :
                        a.slides[i].is_object =>
                           /\ "title" \notin DOMAIN a.slides[i].fields =>
                                 last.bodies[i].title = DefaultTitle(i)
                           /\ "content" \notin DOMAIN a.slides[i].fields =>
                                 last.bodies[i].content = <<>>

\* SlideWithHistory.current of the cached slide at position n
CurrentView(session, n) ==
    PyIndex(session.slides[n].versions, session.slides[n].current_version)

\* C26: (a) when a generation job has completed and nothing has changed the
\* session since, slide 1's current view is the first slide of the job's
\* outline with instruction "Initial generation"; (b) after one successful
\* update of slide 1 following the generation, slide 1 has 2 versions and
\* pointer 1; (c) after a rollback of slide 1 to index 0 following that
\* update, its current title is the outline's title and it has 2 versions.
C26_EndToEnd ==
    LET slide == sessions.slides[1]
        one == [op |-> "update", slide_number |-> 1]
        gen == [op |-> "generate", slide_number |-> 0]
    IN  /\ (/\ last.op = "generate" /\ last.result = "ok" /\ last.job # 0
             /\ jobs[last.job].status = COMPLETED
             /\ Len(last.bodies) >= 1) =>
                /\ CurrentView(sessions, 1).body = last.bodies[1]
                /\ CurrentView(sessions, 1).instruction = INITIAL_INSTRUCTION
        /\ (/\ last.op = "update" /\ last.result = "ok" /\ last.slide_number = 1
             /\ last.prev = gen) =>
                /\ Len(slide.versions) = 2
                /\ slide.current_version = 1
        /\ (/\ last.op = "rollback" /\ last.result = "ok" /\ last.slide_number = 1
             /\ last.version_index = 0
             /\ last.prev = one /\ last.prev2 = gen) =>
                /\ CurrentView(sessions, 1).body.title = last.gen[1].title
                /\ Len(slide.versions) = 2
                /\ slide.current_version = 0

\* C27: once delete_session has returned, the session is not found and no
\* slide row, version row or chat row of it is left.
C27_DeleteRemovesEverything ==
    (last.op = "delete_session" /\ last.result = "ok") =>
        /\ ~SessionExists
        /\ sessions.slides = <<>>
        /\ slidesTbl = {}
        /\ versionsTbl = {}
        /\ chatTbl = <<>>

\* C28: a submission is one step that appends a Pending job with progress 0
\* to the jobs and its id to the queue and touches neither the consumer nor
\* any other job, whatever the consumer is doing; and a job submitted while
\* a task was running is Pending with progress 0 for as long as that task's
\* job is Processing.
C28_SubmitNeverWaits ==
    [][/\ Len(jobs') = Len(jobs) + 1 =>
              /\ consumer' = consumer
              /\ SubSeq(jobs', 1, Len(jobs)) = jobs
              /\ jobs'[Len(jobs')].status = PENDING
              /\ jobs'[Len(jobs')].progress = 0
              /\ queue' = Append(queue, Len(jobs'))
       /\ \A id \in 1..Len(jobs') :
              (/\ jobs'[id].behind # 0
               /\ jobs'[jobs'[id].behind].status = PROCESSING) =>
                  /\ jobs'[id].status = PENDING
                  /\ jobs'[id].progress = 0
                  /\ \E k \in 1..Len(queue') : queue'[k] = id]_vars

\* a job was submitted while the first job's task was building the slides,
\* and another one after that
C28_Witness ==
    /\ Len(jobs) = 3
    /\ jobs[1].status = PROCESSING /\ jobs[1].progress = 90
    /\ jobs[2].behind = 1 /\ jobs[2].status = PENDING
    /\ jobs[3].behind = 1 /\ jobs[3].status = PENDING

\* C29: whenever a provider call that got the rate-limit signal returns to
\* the router, the provider is on cooldown when the router goes on to its
\* next candidate, also when another call on the same provider is in
\* flight and has changed the provider's status in between.
C29_RateLimitSignalSetsCooldown ==
    [][\A c \in CallIds :
          (/\ calls[c].pc = "closing"
           /\ calls[c].outcome = "rate_limit"
           /\ calls'[c].pc # "closing") =>
              is_in_cooldown(cooldowns', calls[c].available[calls[c].idx], now')]_vars

\* C30: while the generation task is replacing the slides of the session
\* (from the deletion of the old slide rows to the refresh of the cache),
\* with slide updates handled in between, a slide-history or preview read
\* (it gets the cached session) sees the complete slide sequence from
\* before the replacement or the complete new one: all the slides of the
\* outline, numbered from 1.
C30_ReadsSeeOldOrNew ==
    (consumer.pc = "executing" /\ consumer.task = "create") =>
        \/ sessions.slides = consumer.old
        \/ /\ Len(sessions.slides) = Len(consumer.slides)
           /\ \A i \in 1..Len(sessions.slides) :
                 /\ sessions.slides[i].slide_number = i
                 /\ sessions.slides[i].versions # <<>>

\* C31: when an edit of slide k commits (an update or a rollback, alone or
\* with an edit of another slide in flight), the row and the versions of
\* every other slide are left as they were, and the edit takes effect on
\* slide k if no other edit of slide k came in between: an update appends
\* its version and points the slide at it, a rollback points the slide at
\* the version asked for; once all the edits have ended the cached session
\* shows the stored one.
C31_EditsOfOtherSlidesIndependent ==
    [][/\ \A h \in HandlerIds :
            (handlers[h].pc = "loaded" /\ handlers'[h].pc # "loaded") =>
               LET \* the row of the slide numbered n and its version rows
                   SlideRows(st, vt, n) ==
                       [slide |-> SlidesNumbered(st, n),
                        versions |-> {v \in vt : \E r \in SlidesNumbered(st, n) :
                                                    v.slide_id = r.id}]
                   e == handlers[h]
                   row == CHOOSE r \in SlidesNumbered(slidesTbl', e.n) : TRUE
               IN  /\ \A m \in 1..MaxSlides :
                         m # e.n => SlideRows(slidesTbl', versionsTbl', m)
                                      = SlideRows(slidesTbl, versionsTbl, m)
                   /\ (/\ SlideRows(slidesTbl, versionsTbl, e.n)
                             = [slide |-> {e.slide}, versions |-> e.versions]
                       /\ handlers'[h].pc = "committed") =>
                          IF e.op = "update"
                          THEN /\ row.body = e.body
                               /\ row.current_version = Cardinality(e.versions)
                               /\ \E v \in versionsTbl' \ versionsTbl :
                                     /\ v.slide_id = row.id
                                     /\ v.version_number = row.current_version
                                     /\ v.body = e.body
                                     /\ versionsTbl' = versionsTbl \cup {v}
                          ELSE /\ row.current_version = e.version_index
                               /\ row.body = PyIndex(SlideVersionsOf(e.versions, row.id),
                                                      e.version_index).body
                               /\ versionsTbl' = versionsTbl
       /\ InFlight' = {} =>
             sessions' = db_session_to_schema(slidesTbl', versionsTbl', chatTbl')]_vars

\* an update of slide 1 and a rollback of slide 2 that loaded their slides
\* before either committed have both committed
C31_Witness ==
    /\ handlers["a"].pc = "committed" /\ handlers["a"].op = "update"
    /\ handlers["a"].n = 1
    /\ handlers["b"].pc = "committed" /\ handlers["b"].op = "rollback"
    /\ handlers["b"].n = 2 /\ handlers["b"].overlap
    /\ \E r \in slidesTbl : r.slide_number = 2 /\ r.current_version = 0
    /\ \E v \in versionsTbl : v.version_number = 1
                                /\ \E r \in slidesTbl : r.slide_number = 2 /\ r.id = v.slide_id

\* C32: in every reachable state, also after two updates of the same slide
\* ran at the same time, the stored versions of each slide carry the
\* numbers 0, 1, 2, ... once each, and the slide's current pointer is the
\* number of exactly one of them.
C32_VersionNumbersDenseUnique ==
    \A r \in slidesTbl :
        LET vs == {v \in versionsTbl : v.slide_id = r.id}
        IN  /\ \A v, w \in vs : v.version_number = w.version_number => v = w
            /\ {v.version_number : v \in vs} = 0..(Cardinality(vs) - 1)
            /\ Cardinality({v \in vs : v.version_number = r.current_version}) = 1

\* C33: a slide update whose regeneration fails (the router returned a
\* failure, the answer is no JSON object, or its title is null) ends with
\* the error and leaves the tables, the chat log and the cached session as
\* they were: no version row is added and no slide's pointer moves.
C33_FailedRegenerationChangesNothing ==
    (/\ last.op = "update"
     /\ last.slide_number \in 1..Len(last.pre.sessions.slides)
     /\ \/ last.answer.kind \in {"router_failure", "not_a_dict"}
        \/ /\ "title" \in DOMAIN last.data
           /\ last.data.title = NoneVal) =>
        /\ last.result = GenFailed
        /\ slidesTbl = last.pre.slidesTbl
        /\ versionsTbl = last.pre.versionsTbl
        /\ chatTbl = SubSeq(chatTbl, 1, last.pre.chatLen)
        /\ sessions = last.pre.sessions

\* an update of slide 1 was answered with "title": null after an earlier
\* update of that slide had succeeded
C33_Witness ==
    /\ last.op = "update" /\ last.slide_number = 1
    /\ last.answer.kind = "object" /\ last.data = [title |-> NoneVal, content |-> <<"y">>]
    /\ last.result = GenFailed
    /\ last.prev = [op |-> "update", slide_number |-> 1]
    /\ Len(sessions.slides) = 2
    /\ Len(sessions.slides[1].versions) = 2

\* C34: when a job turns Failed, the slides and the version histories of
\* the session (stored and cached) are what they were when the job's task
\* started, whichever step of the task raised.
C34_FailedJobLeavesDocument ==
    [][\A id \in 1..Len(jobs) :
          (/\ jobs[id].status = PROCESSING
           /\ jobs'[id].status = FAILED
           \* the last write to the store was this task's
           /\ last.job = id) =>
              /\ slidesTbl' = last.pre.slidesTbl
              /\ versionsTbl' = last.pre.versionsTbl
              /\ sessions'.slides = last.pre.sessions.slides]_vars

\* C35: jobs are executed in the order of their submission: a job has left
\* Pending only if every job submitted before it is Completed or Failed
\* (so an earlier job reaches Processing first, and a later one waits until
\* the earlier one has ended).
C35_SubmissionOrder ==
    \A x, y \in 1..Len(jobs) :
        (x < y /\ jobs[y].status # PENDING) => jobs[x].status \in {COMPLETED, FAILED}

\* the second job, submitted while the first was running, is at work after
\* the first has completed, and a third one waits
C35_Witness ==
    /\ Len(jobs) = 3
    /\ jobs[1].status = COMPLETED
    /\ jobs[2].status = PROCESSING /\ jobs[2].behind = 1
    /\ jobs[3].status = PENDING /\ queue = <<3>>

\* C36: while the consumer loop runs and every task returns or raises,
\* every submitted job is eventually Completed or Failed: none stays
\* Pending or Processing forever.
C36_EveryJobEnds ==
    \A i \in 1..MaxJobs :
        (Len(jobs) >= i) ~> (Len(jobs) >= i /\ jobs[i].status \in {COMPLETED, FAILED})

\* all the jobs have ended, the last one submitted behind a running task
C36_Witness ==
    /\ Len(jobs) = MaxJobs
    /\ \A i \in 1..Len(jobs) : jobs[i].status \in {COMPLETED, FAILED}
    /\ jobs[Len(jobs)].behind # 0
    /\ consumer.pc = "waiting"

\* C37: in every reachable state each job's fields fit its status:
\* Completed has progress 100 and no error text, Failed has an error text,
\* completed_at is set exactly for Completed and Failed jobs, Pending has
\* progress 0, and the progress is within 0..100.
C37_JobFieldsFitStatus ==
    \A id \in 1..Len(jobs) :
        LET job == jobs[id]
        IN  /\ job.status \in {PENDING, PROCESSING, COMPLETED, FAILED}
            /\ job.status = COMPLETED => job.progress = 100 /\ job.error.is_none
            /\ job.status = FAILED => ~job.error.is_none
            /\ job.completed_at # {} <=> job.status \in {COMPLETED, FAILED}
            /\ job.status = PENDING => job.progress = 0
            /\ job.progress \in 0..100

\* a job failed at progress 70, the next completed, the third is at work
C37_Witness ==
    /\ Len(jobs) = 3
    /\ jobs[1].status = FAILED /\ jobs[1].progress = 70
    /\ jobs[2].status = COMPLETED
    /\ jobs[3].status = PROCESSING /\ jobs[3].progress = 10

\* the job engine with the clock and the pruning of old jobs; one outline
\* and one kind of exception
CleanupNext ==
    \/ CreateJob
    \/ Dequeue
    \/ TaskGetSession
    \/ \E bodies \in {b \in Outlines : Len(b) = 1} : TaskOutline(bodies)
    \/ TaskBuild
    \/ TaskReturn
    \/ TaskRaise(<<>>)
    \/ Tick
    \/ CleanupOldJobs

CleanupSpec == Init /\ [][CleanupNext]_vars

\* C38: once stop() has been called the consumer loop eventually exits,
\* also with an empty queue and no further submission, and after it has
\* seen the cleared flag (it has exited) no job is started.
C38_StopEndsLoop ==
    /\ (~consumer.running) ~> (consumer.pc = "exited")
    /\ [][consumer.pc = "exited" =>
             /\ consumer'.pc = "exited"
             /\ \A id \in 1..Len(jobs) : jobs'[id] = jobs[id]]_vars

\* the loop has exited after a job that completed; two jobs are left in
\* the queue, one of them submitted after the exit
C38_Witness ==
    /\ consumer.pc = "exited"
    /\ Len(jobs) = 3
    /\ jobs[1].status = COMPLETED
    /\ queue = <<2, 3>>
    /\ jobs[2].behind = 1 /\ jobs[3].behind = 0

\* C39: in every step the jobs that leave JobManager.jobs are jobs that
\* ended (Completed or Failed) more than the retention horizon before the
\* step, a step that removes one removes all of these, every job that
\* stays is unchanged by such a step, and no id is lost otherwise.
C39_CleanupRemovesExactlyOld ==
    [][LET Old(id) == /\ jobs[id].status \in {COMPLETED, FAILED}
                      /\ \E ended \in jobs[id].completed_at :
                             now - ended > JOB_RETENTION_HOURS
           Removed == {id \in 1..Len(jobs) : jobs[id].in_jobs /\ ~jobs'[id].in_jobs}
       IN  /\ Len(jobs') >= Len(jobs)
           /\ \A id \in 1..Len(jobs) : ~jobs[id].in_jobs => ~jobs'[id].in_jobs
           /\ \A id \in Removed : Old(id)
           /\ Removed # {} =>
                  \A id \in 1..Len(jobs) :
                     /\ jobs[id].in_jobs /\ Old(id) => id \in Removed
                     /\ id \notin Removed => jobs'[id] = jobs[id]]_vars

\* the first job ended two ticks ago and is removed; the second ended one
\* tick ago and is kept, the third is at work
C39_Witness ==
    /\ Len(jobs) = 3
    /\ ~jobs[1].in_jobs /\ jobs[1].completed_at = {0}
    /\ jobs[2].in_jobs /\ jobs[2].completed_at = {1}
    /\ jobs[3].in_jobs /\ jobs[3].status = PROCESSING
    /\ now = 2

\* C40: once delete_session has completed for the session, the cache has
\* no entry for it, whatever was in flight during the delete.
C40_DeletedSessionNotCached == ~SessionExists => ~cached

====
